---- MODULE Spec2Model ----
(***************************************************************************)
(* Model of the entropy pipeline of the quantum random generator backend:  *)
(*   - FPGASimulator (generators/fpga_simulator.py): noise source, von     *)
(*     Neumann debiasing, the entropy buffer with its background producer  *)
(*     and the consumers of generate_random_bytes;                         *)
(*   - QuantumRandomGenerator (generators/quantum_rng.py):                 *)
(*     validate_randomness, the aggregate of the five statistical          *)
(*     sub-tests, and get_quality_metrics;                                 *)
(*   - PerformanceMonitor (utils/performance_monitor.py): the rolling      *)
(*     windows and counters of the metrics aggregator, its recomputation   *)
(*     thread and its readers get_statistics and get_system_health;        *)
(*   - the route handlers (api/routes.py, api/generate_routes.py): their   *)
(*     generator calls and their record_generation calls, the technique    *)
(*     dispatch of get_random_bytes, the aggregator instance each module   *)
(*     holds, and the lock use of every operation;                         *)
(*   - ANUQuantumAPI (generators/anu_api.py): the cooldown, the response   *)
(*     cache and the multi-chunk loop of generate_random_bytes.            *)
(* Each subsystem has its own specifications (SpecDebias; SpecBuf,         *)
(* LiveSpecBuf, LiveSpecStop, SpecCallers; SpecVal, SpecQM, SpecAssess;    *)
(* SpecMon, SpecRT, SpecHealth, SpecReset, SpecStats; SpecRoutes,          *)
(* SpecLocks, SpecGrb; SpecAnu); a specification leaves the variables of   *)
(* the other subsystems unchanged.                                         *)
(***************************************************************************)
EXTENDS Integers, Sequences, FiniteSets, TLC

\* ------------------------------------------------------------------ bounds
\* longest input handed to _apply_debiasing in SpecDebias
MaxDataLen == 3
\* byte values used as debiasing inputs: all-equal pairs, (0,1) pairs,
\* (1,0) pairs and mixed bytes that tell the two bit orders apart
DebiasByteVals == {0, 255, 85, 170, 1, 128, 27, 77}

\* buffer_size (1 MiB in the program), scaled
BufferSize == 2
\* the producer's chunk request (1024 bytes in the program), scaled
ChunkSize == 3
\* largest size a consumer asks of generate_random_bytes
MaxSize == 2
\* number of generate_random_bytes calls started in one behaviour
MaxCalls == 2
\* the producer starts no further iteration once it has appended this many bytes
MaxProduced == 3
\* byte values of the raw noise stream in SpecBuf: 170 (10101010) holds
\* only (1,0) pairs, so a chunk of three debiases to the two bytes 255, 240
NoiseByteVals == {170}
\* consumer threads calling generate_random_bytes
Consumers == {"c1", "c2"}
\* the consumers that call generate_random_bytes in SpecStop
StopConsumers == {"c1"}

\* history_size (1000 by default), scaled
HistorySize == 2
\* maxlen of the three quality score deques (100 in the program), scaled
QualityMaxLen == 2
\* maxlen of request_timestamps (60 in the program), scaled
TimestampMaxLen == 2
\* record_generation calls started in one behaviour
MaxRecords == 3
\* record_quality_metrics calls in one behaviour
MaxQualityRecords == 3
\* last tick of the clock; one tick is 60 seconds
MaxClock == 2
\* last tick of the clock in SpecMon, whose windows do not depend on the time
MonMaxClock == 1
\* the window of requests_per_second and of is_active: 60 seconds, in ticks
WindowTicks == 1
\* the divisor of requests_per_second: the 60 seconds of the window
WindowSeconds == 60
\* the newest measurements averaged into instantaneous_throughput_mbps and
\* into quality_health (10 in the program), scaled
RecentWindow == 1
\* the events listed in recent_activity (20 in the program), scaled
ActivityWindow == 1
\* calls of get_statistics and of get_system_health in one behaviour
MaxReads == 1
\* target_throughput of get_system_health, in Mbps
TargetThroughput == 50
\* threads calling record_generation
Recorders == {"r1", "r2"}
\* the arguments of record_generation: size_bytes, generation_time in
\* milliseconds, source; the sizes are multiples of 125 bytes, so that
\* size_bytes * 8 / (generation_time * 1000000) Mbps is a whole number
RecordInputs == {<<250, 1, "fpga">>, <<500, 0, "anu">>}
\* the arguments of record_generation in SpecRT: as above, and a call with
\* a negative duration (the caller's clock stepped back during the call)
RtRecordInputs == {<<250, 1, "fpga">>, <<500, 0, "anu">>, <<125, -2, "fpga">>}
\* the arguments of record_quality_metrics: entropy, uniformity and
\* correlation in hundredths
QualityInputs == {<<790, 98, 2>>, <<400, 50, -30>>}

\* HTTP requests served at the same time
Requests == {"q1", "q2"}
\* requests started in one behaviour
MaxRequests == 2
\* largest count of a /hash request (20 in the program), scaled
MaxHashCount == 2
\* the endpoints that call a generator: /api/random, /api/keys and
\* /api/validate of routes.py, /boolean, /hash, /number and /custom of
\* generate_routes.py
Routes == {"random", "keys", "validate", "boolean", "hash", "number", "custom"}
\* the source or technique a request names
Techniques == {"fpga", "anu", "cryptographic"}

\* the threads of SpecLocks: buffer_worker, monitor_worker and two request
\* handlers
LockThreads == {"producer", "monitor", "h1", "h2"}

\* longest input handed to validate_randomness in SpecVal
MaxValLen == 4
\* byte values of the validated data: 00000000, 01010101, 10101010, 11111111
ValByteVals == {0, 85, 170, 255}
\* get_quality_metrics calls on the same buffer in SpecQM
MaxQmCalls == 2
\* the buffers of the get_quality_metrics calls made in between
QmOtherInputs == {<<>>, <<85, 170>>, <<255>>}

\* the most bytes of one ANU request (1024 in the program), scaled
AnuChunkLimit == 2
\* largest size asked of ANUQuantumAPI.generate_random_bytes: two full chunks
AnuMaxSize == 2 * AnuChunkLimit
\* min_request_interval (1 second): one tick of the ANU client's clock
MinRequestInterval == 1
\* the cooldown after a successful request (70 seconds), scaled to ticks
CooldownTicks == 3
\* cache_ttl (300 seconds), scaled to ticks
CacheTtlTicks == 5
\* calls of ANUQuantumAPI.generate_random_bytes started in one behaviour
MaxAnuCalls == 2
\* last tick at which a call is started or an idle client lets time pass
AnuMaxClock == 5

\* ------------------------------------------------------------------ state
VARIABLES
    \* --- _apply_debiasing as a unit (SpecDebias)
    d_pc,            \* "input" | "done"
    d_in,            \* data: the bytes handed to _apply_debiasing
    d_out,           \* the bytes it returned
    d_path           \* "none" | "packed" | "fallback" | "error"

VARIABLES
    \* --- FPGASimulator (SpecBuf)
    random_buffer,        \* self.random_buffer
    buffer_lock,          \* holder of self.buffer_lock: "free", "producer" or a consumer
    is_running,           \* self.is_running
    quantum_noise_params, \* self.quantum_noise_params (levels in hundredths)
    stats,                \* self.stats: total_bytes_generated, generation_requests
    p_pc,                 \* position of buffer_worker
    c_pc,                 \* position of each consumer inside generate_random_bytes
    c_size,               \* its size argument
    c_result,             \* its result
    c_path,               \* "none" | "hit" | "miss": the branch it took
    c_tmp,                \* the value it loaded for a stats[...] += ...
    ncalls,               \* calls of generate_random_bytes started so far
    produced,             \* history: all bytes the producer appended, in order
    consumed              \* history: all bytes of buffer-hit results, in lock order

VARIABLES
    \* --- QuantumRandomGenerator.validate_randomness as a unit (SpecVal)
    v_pc,            \* "input" | "done"
    v_data,          \* data
    v_results,       \* the returned results: tests and overall_quality
    \* --- QuantumRandomGenerator.get_quality_metrics (SpecQM)
    qm_results,      \* what each get_quality_metrics(v_data) call returned, in order
    qm_other,        \* what the last get_quality_metrics call on another buffer returned
    qrg_generation_history  \* self.generation_history of the QuantumRandomGenerator

VARIABLES
    \* --- PerformanceMonitor (SpecMon)
    generation_history,   \* deque(maxlen=history_size) of events
    throughput_history,   \* deque(maxlen=history_size)
    latency_history,      \* deque(maxlen=history_size), milliseconds
    request_timestamps,   \* deque(maxlen=60)
    source_stats,         \* defaultdict: source label -> statistics
    current_metrics,      \* total_bytes_generated, total_requests
    quality_metrics,      \* entropy_scores, uniformity_scores, correlation_scores,
                          \* last_quality_check (-1 is None)
    last_request_time,    \* -1 is None
    now,                  \* datetime.utcnow(), in ticks
    r_pc,                 \* position of each thread inside record_generation
    r_event,              \* the event it built before taking the lock
    n_records,            \* record_generation calls started so far
    n_quality,            \* record_quality_metrics calls so far
    event_log,            \* history: every event appended since the last reset
    quality_log           \* history: every quality triple appended since the last reset

VARIABLES
    \* --- PerformanceMonitor: recomputation thread and readers (SpecRT)
    monitoring_active,    \* self.monitoring_active
    m_pc,                 \* position of monitor_worker
    start_time,           \* self.start_time, in ticks
    snapshot,             \* the dictionary the last get_statistics call returned
    health,               \* the dictionary the last get_system_health call returned
    n_reads               \* calls of get_statistics and get_system_health so far

VARIABLES
    \* --- the route handlers (SpecRoutes)
    q_pc,            \* position of each request: "idle" | "generate" | "done"
    q_route,         \* the endpoint it was sent to
    q_technique,     \* its source or technique
    q_todo,          \* generator requests the handler still has to make
    gen_calls,       \* generate_random_bytes calls the handler has made
    rec_events,      \* record_generation calls the handler has made
    q_status,        \* the HTTP status of the response
    n_requests,      \* requests started so far
    \* --- the two locks and the threads that take them (SpecLocks)
    lock,            \* holder of PerformanceMonitor.lock: "free" or a thread
    t_op,            \* the operation each thread is executing, or "idle"
    t_pos,           \* its next step in the lock program of that operation
    \* --- get_random_bytes of generate_routes.py (SpecGrb)
    grb_pc,          \* per caller: "idle" | "try" | "except" | "returned" | "raised"
    grb_arg,         \* the technique argument of the caller's call
    grb_technique,   \* the technique argument of the innermost frame
    grb_depth,       \* recursive calls below the caller's call
    grb_failed,      \* the techniques whose try block raised, in order
    grb_result,      \* the metadata returned to the caller
    \* --- ANUQuantumAPI (SpecAnu)
    anu_now,         \* time.time(), in ticks
    anu_pc,          \* "idle" | "check" | "chunk" | "returned" | "raised"
    anu_via,         \* "generate" | "validate": the caller of generate_random_bytes
    anu_size,        \* the size argument
    anu_remaining,   \* remaining, the bytes still to fetch
    anu_result,      \* result: the bytes fetched so far, each tagged by its response
    anu_chunks,      \* history: per chunk of the result, its response and its origin
    anu_cache,       \* self.cache: key -> (data, timestamp)
    anu_last_request_time,        \* self.last_request_time
    anu_last_successful_request,  \* self._last_successful_request, once it is set
    anu_stats,       \* self.stats: the four counters
    anu_http_log,    \* history: every remote request, when sent and answered
    anu_calls,       \* generate_random_bytes calls started so far
    \* --- the callers of FPGASimulator.generate_random_bytes (SpecCallers)
    requested_bytes, \* history: the sum of the size arguments of the calls
    \* --- the two PerformanceMonitor instances of the route modules (SpecRoutes)
    monitor_requests, \* total_requests of routes.perf_monitor and of generate_routes.perf_monitor
    stats_served     \* total_requests in the last /api/stats response

debVars == <<d_pc, d_in, d_out, d_path>>
routeVars == <<q_pc, q_route, q_technique, q_todo, gen_calls, rec_events, q_status, n_requests,
               lock, t_op, t_pos,
               grb_pc, grb_arg, grb_technique, grb_depth, grb_failed, grb_result,
               anu_now, anu_pc, anu_via, anu_size, anu_remaining, anu_result, anu_chunks,
               anu_cache, anu_last_request_time, anu_last_successful_request, anu_stats,
               anu_http_log, anu_calls, requested_bytes, monitor_requests, stats_served>>
\* the variables of the two aggregator instances and of /api/stats
servedVars == <<monitor_requests, stats_served>>
anuVars == <<anu_now, anu_pc, anu_via, anu_size, anu_remaining, anu_result, anu_chunks,
             anu_cache, anu_last_request_time, anu_last_successful_request, anu_stats,
             anu_http_log, anu_calls>>
lockVars == <<lock, t_op, t_pos>>
grbVars == <<grb_pc, grb_arg, grb_technique, grb_depth, grb_failed, grb_result>>
monVars == <<generation_history, throughput_history, latency_history, request_timestamps,
             source_stats, current_metrics, quality_metrics, last_request_time, now,
             r_pc, r_event, n_records, n_quality, event_log, quality_log,
             monitoring_active, m_pc, start_time, snapshot, health, n_reads>>
\* the variables only the recomputation thread and the readers write
rtVars == <<monitoring_active, m_pc, start_time, snapshot, health, n_reads>>
valVars == <<v_pc, v_data, v_results, qm_results, qm_other, qrg_generation_history>>
\* the variables of the get_quality_metrics calls
qmVars == <<qm_results, qm_other, qrg_generation_history>>
bufVars == <<random_buffer, buffer_lock, is_running, quantum_noise_params, stats,
             p_pc, c_pc, c_size, c_result, c_path, c_tmp, ncalls, produced, consumed>>
vars == <<debVars, bufVars, valVars, monVars, routeVars>>

\* ------------------------------------------------- sequences and helpers
Min(a, b) == IF a < b THEN a ELSE b

\* the last n elements of a sequence (all of it when it is shorter)
LastN(s, n) == SubSeq(s, Len(s) - Min(Len(s), n) + 1, Len(s))

RECURSIVE Pow2(_)
Pow2(n) == IF n = 0 THEN 1 ELSE 2 * Pow2(n - 1)

RECURSIVE SeqsUpTo(_, _)
\* all sequences over S of length at most n
SeqsUpTo(S, n) ==
    IF n = 0 THEN {<<>>}
    ELSE LET shorter == SeqsUpTo(S, n - 1)
         IN  shorter \cup {Append(s, x) : s \in {t \in shorter : Len(t) = n - 1}, x \in S}

SeqsOfLen(S, n) == {s \in SeqsUpTo(S, n) : Len(s) = n}

\* ------------------------------------------------------ von Neumann debiasing
\* the bits of one byte, least significant bit first
ByteBitsLittle(b) == [i \in 1..8 |-> (b \div Pow2(i - 1)) % 2]
\* np.unpackbits of one uint8: most significant bit first
ByteBits(b) == [i \in 1..8 |-> (b \div Pow2(8 - i)) % 2]

RECURSIVE UnpackBits(_)
\* bits = np.unpackbits(np.frombuffer(data, dtype=np.uint8))
UnpackBits(data) ==
    IF data = <<>> THEN <<>>
    ELSE ByteBits(Head(data)) \o UnpackBits(Tail(data))

\* the body of the scan loop: what one pair appends to debiased_bits
PairBits(b0, b1) ==
    IF b0 = 0 /\ b1 = 1 THEN <<0>>
    ELSE IF b0 = 1 /\ b1 = 0 THEN <<1>>
    ELSE <<>>

RECURSIVE ScanPairs(_, _, _)
\* i = 0; while i < len(bits) - 1: ...; i += 2     (i is 0-based as in the code)
ScanPairs(bits, i, debiased_bits) ==
    IF i < Len(bits) - 1
    THEN ScanPairs(bits, i + 2, debiased_bits \o PairBits(bits[i + 1], bits[i + 2]))
    ELSE debiased_bits

RECURSIVE PadToByte(_)
\* while len(debiased_bits) % 8 != 0: debiased_bits.append(0)
PadToByte(debiased_bits) ==
    IF Len(debiased_bits) % 8 # 0
    THEN PadToByte(Append(debiased_bits, 0))
    ELSE debiased_bits

RECURSIVE BitsValue(_, _)
\* value of a group of bits read most significant bit first
BitsValue(bs, acc) ==
    IF bs = <<>> THEN acc ELSE BitsValue(Tail(bs), 2 * acc + Head(bs))

\* bytes(debiased_bits): one byte per bit, the packing step left out
PackBitsOnePerByte(bs) == bs
RECURSIVE PackBits(_)
\* np.packbits(debiased_array).tobytes()
PackBits(bs) ==
    IF bs = <<>> THEN <<>>
    ELSE <<BitsValue(SubSeq(bs, 1, 8), 0)>> \o PackBits(SubSeq(bs, 9, Len(bs)))

\* debiased_bits after the scan and the padding loop
DebiasedBits(data) == PadToByte(ScanPairs(UnpackBits(data), 0, <<>>))

\* a debiasing whose fallback returns the second half of the input
ApplyDebiasingSecondHalf(data) ==
    LET debiased_bits == DebiasedBits(data)
    IN  IF debiased_bits # <<>>
        THEN PackBits(debiased_bits)
        ELSE SubSeq(data, Len(data) - Len(data) \div 2 + 1, Len(data))

\* the try body of _apply_debiasing
ApplyDebiasing(data) ==
    LET debiased_bits == DebiasedBits(data)
    IN  IF debiased_bits # <<>>
        THEN PackBits(debiased_bits)
        ELSE SubSeq(data, 1, Len(data) \div 2)

\* ------------------------------------------------------------ noise source
\* the defaults of __init__: thermal 0.1, shot 0.05, interference on
DefaultNoiseParams ==
    [thermal_noise_level |-> 10, shot_noise_factor |-> 5, interference_pattern |-> TRUE]

\* the dictionaries handed to configure_quantum_params
ConfigInputs ==
    { [thermal_noise_level |-> -10], [thermal_noise_level |-> 10] }

\* np.random.normal raises on a negative scale, np.random.poisson on a
\* negative rate: the try body of _generate_quantum_noise then fails
NoiseRaises(params) ==
    params.thermal_noise_level < 0 \/ params.shot_noise_factor < 0

\* a noise source whose failure path debiases like the normal path
NoiseOutcomesAlwaysDebiased(size, raises) ==
    {ApplyDebiasing(quantum_data) : quantum_data \in SeqsOfLen(NoiseByteVals, size)}

\* the results _generate_quantum_noise(size) can return: the debiased
\* perturbed stream, or on failure size bytes of the base stream
NoiseOutcomes(size, raises) ==
    IF raises
    THEN SeqsOfLen(NoiseByteVals, size)
    ELSE {ApplyDebiasing(quantum_data) : quantum_data \in SeqsOfLen(NoiseByteVals, size)}

\* NoiseOutcomes tabulated for the sizes the model requests
NoiseTable ==
    [size \in 0..(ChunkSize + MaxSize), raises \in BOOLEAN |-> NoiseOutcomes(size, raises)]

\* _generate_quantum_noise(size) under the current parameters
GenerateQuantumNoise(size, params) == NoiseTable[size, NoiseRaises(params)]

\* ------------------------------------------------------- SpecBuf: actions
InitBufVars ==
    /\ random_buffer = <<>>
    /\ buffer_lock = "free"
    /\ is_running = TRUE
    /\ quantum_noise_params = DefaultNoiseParams
    /\ stats = [total_bytes_generated |-> 0, generation_requests |-> 0]
    /\ p_pc = "loop"
    /\ c_pc = [c \in Consumers |-> "idle"]
    /\ c_size = [c \in Consumers |-> 0]
    /\ c_result = [c \in Consumers |-> <<>>]
    /\ c_path = [c \in Consumers |-> "none"]
    /\ c_tmp = [c \in Consumers |-> 0]
    /\ ncalls = 0
    /\ produced = <<>>
    /\ consumed = <<>>

consumerVars == <<c_pc, c_size, c_result, c_path, c_tmp, ncalls, stats>>

\* a worker loop that does not look at the running flag
ProducerLoopForever ==
    /\ p_pc = "loop"
    /\ Len(produced) < MaxProduced
    /\ p_pc' = "acquire"
    /\ UNCHANGED <<random_buffer, buffer_lock, is_running, quantum_noise_params,
                   consumerVars, produced, consumed>>

\* buffer_worker: while self.is_running
ProducerLoop ==
    /\ p_pc = "loop"
    /\ Len(produced) < MaxProduced \/ ~is_running
    /\ p_pc' = IF is_running THEN "acquire" ELSE "exited"
    /\ UNCHANGED <<random_buffer, buffer_lock, is_running, quantum_noise_params,
                   consumerVars, produced, consumed>>

\* a fill check that still appends at a fill level equal to the capacity
ProducerCheckInclusive ==
    /\ p_pc = "acquire"
    /\ buffer_lock = "free"
    /\ IF Len(random_buffer) <= BufferSize
       THEN /\ p_pc' = "generating"
            /\ buffer_lock' = "producer"
       ELSE /\ p_pc' = "sleep"
            /\ UNCHANGED buffer_lock
    /\ UNCHANGED <<random_buffer, is_running, quantum_noise_params,
                   consumerVars, produced, consumed>>

\* a fill check that lets the worker append until a whole chunk is above
\* the capacity
ProducerCheckLoose ==
    /\ p_pc = "acquire"
    /\ buffer_lock = "free"
    /\ IF Len(random_buffer) < BufferSize + ChunkSize
       THEN /\ p_pc' = "generating"
            /\ buffer_lock' = "producer"
       ELSE /\ p_pc' = "sleep"
            /\ UNCHANGED buffer_lock
    /\ UNCHANGED <<random_buffer, is_running, quantum_noise_params,
                   consumerVars, produced, consumed>>

\* buffer_worker: with self.buffer_lock: if len(self.random_buffer) <
\* self.buffer_size; when the buffer is full the with block ends at once and
\* the lock is released
ProducerCheck ==
    /\ p_pc = "acquire"
    /\ buffer_lock = "free"
    /\ IF Len(random_buffer) < BufferSize
       THEN /\ p_pc' = "generating"
            /\ buffer_lock' = "producer"
       ELSE /\ p_pc' = "sleep"
            /\ UNCHANGED buffer_lock
    /\ UNCHANGED <<random_buffer, is_running, quantum_noise_params,
                   consumerVars, produced, consumed>>

\* buffer_worker: new_data = self._generate_quantum_noise(1024);
\* self.random_buffer.extend(new_data); the with block ends
ProducerExtend ==
    /\ p_pc = "generating"
    /\ \E new_data \in GenerateQuantumNoise(ChunkSize, quantum_noise_params) :
          /\ random_buffer' = random_buffer \o new_data
          /\ produced' = produced \o new_data
    /\ buffer_lock' = "free"
    /\ p_pc' = "sleep"
    /\ UNCHANGED <<is_running, quantum_noise_params, consumerVars, consumed>>

\* buffer_worker: time.sleep(0.001)
ProducerSleep ==
    /\ p_pc = "sleep"
    /\ p_pc' = "loop"
    /\ UNCHANGED <<random_buffer, buffer_lock, is_running, quantum_noise_params,
                   consumerVars, produced, consumed>>

\* generate_random_bytes(size) is called: start_time = time.time()
Call(c, size) ==
    /\ c_pc[c] = "idle"
    /\ ncalls < MaxCalls
    /\ ncalls' = ncalls + 1
    /\ c_pc' = [c_pc EXCEPT ![c] = "acquire"]
    /\ c_size' = [c_size EXCEPT ![c] = size]
    /\ c_result' = [c_result EXCEPT ![c] = <<>>]
    /\ c_path' = [c_path EXCEPT ![c] = "none"]
    /\ UNCHANGED <<random_buffer, buffer_lock, is_running, quantum_noise_params,
                   stats, p_pc, c_tmp, produced, consumed>>

\* the slice a buffer hit returns, taken from the wrong end
TakeSliceFromEnd(buf, size) == SubSeq(buf, Len(buf) - size + 1, Len(buf))
\* bytes(self.random_buffer[:size])
TakeSlice(buf, size) == SubSeq(buf, 1, size)

\* del self.random_buffer[:size]
TakeRest(buf, size) == SubSeq(buf, size + 1, Len(buf))

\* generate_random_bytes: with self.buffer_lock: len(self.random_buffer) >=
\* size: the first size bytes are returned and deleted, the with block ends
TakeHit(c) ==
    /\ c_pc[c] = "acquire"
    /\ buffer_lock = "free"
    /\ Len(random_buffer) >= c_size[c]
    /\ c_result' = [c_result EXCEPT ![c] = TakeSlice(random_buffer, c_size[c])]
    /\ random_buffer' = TakeRest(random_buffer, c_size[c])
    /\ consumed' = consumed \o TakeSlice(random_buffer, c_size[c])
    /\ c_path' = [c_path EXCEPT ![c] = "hit"]
    /\ c_pc' = [c_pc EXCEPT ![c] = "stats_bytes_load"]
    /\ UNCHANGED <<buffer_lock, is_running, quantum_noise_params, stats, p_pc,
                   c_size, c_tmp, ncalls, produced>>

\* a take that waits for the producer: on a miss the lock is released and
\* the fill level is checked again later
TakeMissWaiting(c) ==
    /\ c_pc[c] = "acquire"
    /\ buffer_lock = "free"
    /\ Len(random_buffer) < c_size[c]
    /\ UNCHANGED bufVars
\* a miss that hands out what the buffer holds before it generates the rest
TakeMissDraining(c) ==
    /\ c_pc[c] = "acquire"
    /\ buffer_lock = "free"
    /\ Len(random_buffer) < c_size[c]
    /\ buffer_lock' = c
    /\ random_buffer' = <<>>
    /\ c_pc' = [c_pc EXCEPT ![c] = "generating"]
    /\ UNCHANGED <<is_running, quantum_noise_params,
                   stats, p_pc, c_size, c_result, c_path, c_tmp, ncalls,
                   produced, consumed>>

\* generate_random_bytes: with self.buffer_lock: len(self.random_buffer) <
\* size: the else branch is entered; the lock stays held while
\* self._generate_quantum_noise(size) runs
TakeMiss(c) ==
    /\ c_pc[c] = "acquire"
    /\ buffer_lock = "free"
    /\ Len(random_buffer) < c_size[c]
    /\ buffer_lock' = c
    /\ c_pc' = [c_pc EXCEPT ![c] = "generating"]
    /\ UNCHANGED <<random_buffer, is_running, quantum_noise_params,
                   stats, p_pc, c_size, c_result, c_path, c_tmp, ncalls,
                   produced, consumed>>

\* generate_random_bytes: result = self._generate_quantum_noise(size)
\* returns and the with block ends
TakeGenerated(c) ==
    /\ c_pc[c] = "generating"
    /\ \E result \in GenerateQuantumNoise(c_size[c], quantum_noise_params) :
          c_result' = [c_result EXCEPT ![c] = result]
    /\ c_path' = [c_path EXCEPT ![c] = "miss"]
    /\ buffer_lock' = "free"
    /\ c_pc' = [c_pc EXCEPT ![c] = "stats_bytes_load"]
    /\ UNCHANGED <<random_buffer, is_running, quantum_noise_params, stats, p_pc,
                   c_size, c_tmp, ncalls, produced, consumed>>

\* self.stats['total_bytes_generated'] += size: the load
StatsBytesLoad(c) ==
    /\ c_pc[c] = "stats_bytes_load"
    /\ c_tmp' = [c_tmp EXCEPT ![c] = stats.total_bytes_generated]
    /\ c_pc' = [c_pc EXCEPT ![c] = "stats_bytes_store"]
    /\ UNCHANGED <<random_buffer, buffer_lock, is_running, quantum_noise_params,
                   stats, p_pc, c_size, c_result, c_path, ncalls, produced, consumed>>

\* self.stats['total_bytes_generated'] += size: the store
StatsBytesStore(c) ==
    /\ c_pc[c] = "stats_bytes_store"
    /\ stats' = [stats EXCEPT !.total_bytes_generated = c_tmp[c] + c_size[c]]
    /\ c_pc' = [c_pc EXCEPT ![c] = "stats_requests_load"]
    /\ c_tmp' = [c_tmp EXCEPT ![c] = 0]
    /\ UNCHANGED <<random_buffer, buffer_lock, is_running, quantum_noise_params,
                   p_pc, c_size, c_result, c_path, ncalls, produced, consumed>>

\* self.stats['generation_requests'] += 1: the load
StatsRequestsLoad(c) ==
    /\ c_pc[c] = "stats_requests_load"
    /\ c_tmp' = [c_tmp EXCEPT ![c] = stats.generation_requests]
    /\ c_pc' = [c_pc EXCEPT ![c] = "stats_requests_store"]
    /\ UNCHANGED <<random_buffer, buffer_lock, is_running, quantum_noise_params,
                   stats, p_pc, c_size, c_result, c_path, ncalls, produced, consumed>>

\* self.stats['generation_requests'] += 1: the store
StatsRequestsStore(c) ==
    /\ c_pc[c] = "stats_requests_store"
    /\ stats' = [stats EXCEPT !.generation_requests = c_tmp[c] + 1]
    /\ c_pc' = [c_pc EXCEPT ![c] = "pace"]
    /\ c_tmp' = [c_tmp EXCEPT ![c] = 0]
    /\ UNCHANGED <<random_buffer, buffer_lock, is_running, quantum_noise_params,
                   p_pc, c_size, c_result, c_path, ncalls, produced, consumed>>

\* generate_random_bytes: the pacing sleep, then return result; the locals
\* of the call are gone
Return(c) ==
    /\ c_pc[c] = "pace"
    /\ c_pc' = [c_pc EXCEPT ![c] = "idle"]
    /\ c_tmp' = [c_tmp EXCEPT ![c] = 0]
    /\ c_size' = [c_size EXCEPT ![c] = 0]
    /\ c_result' = [c_result EXCEPT ![c] = <<>>]
    /\ c_path' = [c_path EXCEPT ![c] = "none"]
    /\ UNCHANGED <<random_buffer, buffer_lock, is_running, quantum_noise_params,
                   stats, p_pc, ncalls, produced, consumed>>

\* configure_quantum_params(params): every known key is overwritten
ConfigureQuantumParams(params) ==
    /\ quantum_noise_params' =
          [key \in DOMAIN quantum_noise_params |->
              IF key \in DOMAIN params THEN params[key] ELSE quantum_noise_params[key]]
    /\ quantum_noise_params' # quantum_noise_params
    /\ UNCHANGED <<random_buffer, buffer_lock, is_running, stats, p_pc, c_pc, c_size,
                   c_result, c_path, c_tmp, ncalls, produced, consumed>>

\* stop(): self.is_running = False
Stop ==
    /\ is_running
    /\ is_running' = FALSE
    /\ UNCHANGED <<random_buffer, buffer_lock, quantum_noise_params, stats, p_pc, c_pc,
                   c_size, c_result, c_path, c_tmp, ncalls, produced, consumed>>

Producer == ProducerLoop \/ ProducerCheck \/ ProducerExtend \/ ProducerSleep

\* ------------------------------------------------------- validation suite
RECURSIVE SumSeq(_)
SumSeq(s) == IF s = <<>> THEN 0 ELSE Head(s) + SumSeq(Tail(s))

RECURSIVE Gcd(_, _)
Gcd(a, b) == IF b = 0 THEN a ELSE Gcd(b, a % b)

RECURSIVE GcdSeq(_)
GcdSeq(s) == IF s = <<>> THEN 0 ELSE Gcd(Head(s), GcdSeq(Tail(s)))

TestNames == {"frequency_test", "runs_test", "chi_square_test", "entropy", "serial_correlation"}

\* a frequency test whose statistic leaves out the term of the zeros
FrequencyTestOnesOnly(data) ==
    LET bits == UnpackBits(data)
        n == Len(bits)
        ones == SumSeq(bits)
        zeros == n - ones
    IN  [ones |-> ones, zeros |-> zeros, total_bits |-> n,
         chi_square |-> [num |-> (2 * ones - n) * (2 * ones - n), den |-> 2 * n],
         critical_value_thousandths |-> 3841,
         passed |-> n > 0 /\ 1000 * (2 * ones - n) * (2 * ones - n) < 3841 * 2 * n]

\* _frequency_test: chi_square = ((ones - n/2)^2 + (zeros - n/2)^2) / (n/2)
\*                             = (2*ones - n)^2 / n,  passed = chi_square < 3.841;
\* without bits the statistic is 0/0 and the comparison is false
FrequencyTest(data) ==
    LET bits == UnpackBits(data)
        n == Len(bits)
        ones == SumSeq(bits)
        zeros == n - ones
    IN  [ones |-> ones, zeros |-> zeros, total_bits |-> n,
         chi_square |-> [num |-> (2 * ones - n) * (2 * ones - n), den |-> n],
         critical_value_thousandths |-> 3841,
         passed |-> n > 0 /\ 1000 * (2 * ones - n) * (2 * ones - n) < 3841 * n]

RECURSIVE CountRuns(_, _)
\* runs = 1; for i in range(1, n): if bits[i] != bits[i-1]: runs += 1
CountRuns(bits, i) ==
    IF i > Len(bits) THEN 1
    ELSE (IF bits[i] # bits[i - 1] THEN 1 ELSE 0) + CountRuns(bits, i + 1)

\* _runs_test: expected = 2*o*(n-o)/n + 1, variance = 2*o*(n-o)*(2*o*(n-o)-n) /
\* (n*n*(n-1)); passed = |runs - expected| / sqrt(variance) < 1.96 when the
\* variance is positive and True otherwise (also when it is 0/0).
\* z < 1.96 is 625 * dev^2 * (n-1) < 2401 * a * (a-n) with a = 2*o*(n-o) and
\* dev = runs*n - a - n; the comparison is made by a division that stays
\* within TLC's integers.
RunsTest(data) ==
    LET bits == UnpackBits(data)
        n == Len(bits)
        runs == CountRuns(bits, 2)
        o == SumSeq(bits)
        a == 2 * o * (n - o)
        variance_positive == n > 1 /\ a * (a - n) > 0
        dev == runs * n - a - n
    IN  [runs_observed |-> runs,
         passed |-> IF variance_positive
                    THEN dev * dev * (n - 1) <= (2401 * a * (a - n) - 1) \div 625
                    ELSE TRUE]

\* np.bincount(data, minlength=256)[v]
ByteCount(data, v) == Cardinality({i \in 1..Len(data) : data[i] = v})

SumSquaredCounts(data) ==
    LET vals == {data[i] : i \in 1..Len(data)}
        sq == [v \in vals |-> ByteCount(data, v) * ByteCount(data, v)]
        RECURSIVE Total(_)
        Total(S) == IF S = {} THEN 0
                    ELSE LET v == CHOOSE x \in S : TRUE IN sq[v] + Total(S \ {v})
    IN  Total(vals)

\* _chi_square_test: chi_square = sum((observed - n/256)^2 / (n/256))
\*                              = (256 * sum(observed^2) - n^2) / n,
\* passed = chi_square < 293.25; on no data the statistic is 0/0
ChiSquareTest(data) ==
    LET n == Len(data)
        num == 256 * SumSquaredCounts(data) - n * n
    IN  [degrees_of_freedom |-> 255,
         passed |-> n > 0 /\ 4 * num < 1173 * n]

\* np.log2(k) for the counts a bounded input can have, in millionths of a bit
Log2Micro == <<0, 1000000, 1584963, 2000000, 2321928, 2584963, 2807355, 3000000>>

\* counts = np.bincount(data, minlength=256); probabilities = counts / len(data);
\* probabilities = probabilities[probabilities > 0];
\* entropy = -np.sum(probabilities * np.log2(probabilities))
\*         = (n * log2(n) - sum(c * log2(c))) / n over the non-zero counts c,
\* in millionths of a bit; on no data every probability is 0/0, none is
\* kept and the sum is 0
ShannonEntropy(data) ==
    LET n == Len(data)
        vals == {data[i] : i \in 1..n}
        RECURSIVE Total(_)
        Total(S) == IF S = {} THEN 0
                    ELSE LET v == CHOOSE x \in S : TRUE
                         IN  ByteCount(data, v) * Log2Micro[ByteCount(data, v)] + Total(S \ {v})
    IN  IF n = 0 THEN 0 ELSE (n * Log2Micro[n] - Total(vals)) \div n

\* _calculate_entropy: passed = entropy > 7.5. The entropy of a sample is at
\* most log2 of its number of distinct values, so fewer than 182 distinct
\* values (2^7.5 = 181.02) cannot pass; MaxValLen keeps the data below that.
CalculateEntropy(data) ==
    [entropy |-> ShannonEntropy(data),
     max_entropy |-> 8,
     passed |-> IF Cardinality({data[i] : i \in 1..Len(data)}) < 182 THEN FALSE
                ELSE CHOOSE b \in BOOLEAN : TRUE]

\* _serial_correlation_test: fewer than 2 bytes give the error marker;
\* otherwise correlation = np.corrcoef(data[:-1], data[1:])[0, 1] and
\* passed = abs(correlation) < 0.1, false on a zero variance (0/0).
\* The coefficient does not change when all bytes are divided by a common
\* factor, which keeps the sums within TLC's integers.
SerialCorrelationTest(data) ==
    IF Len(data) < 2
    THEN [error |-> "Insufficient data for correlation test"]
    ELSE LET m == Len(data) - 1
             g == IF GcdSeq(data) = 0 THEN 1 ELSE GcdSeq(data)
             x == [i \in 1..m |-> data[i] \div g]
             y == [i \in 1..m |-> data[i + 1] \div g]
             sxy == m * SumSeq([i \in 1..m |-> x[i] * y[i]]) - SumSeq(x) * SumSeq(y)
             sxx == m * SumSeq([i \in 1..m |-> x[i] * x[i]]) - SumSeq(x) * SumSeq(x)
             syy == m * SumSeq([i \in 1..m |-> y[i] * y[i]]) - SumSeq(y) * SumSeq(y)
         IN  [threshold_percent |-> 10,
              passed |-> sxx > 0 /\ syy > 0 /\ 100 * sxy * sxy < sxx * syy]

\* the except branch of a sub-test: return {'error': str(e)}
ErrorMarker == [error |-> "exception"]

\* a suite in which a sub-test that fails leaves no entry
RunTestsAborting(data, raising) ==
    [t \in {u \in TestNames \ raising : u # "serial_correlation" \/ Len(data) >= 2} |->
        IF t = "frequency_test" THEN FrequencyTest(data)
        ELSE IF t = "runs_test" THEN RunsTest(data)
        ELSE IF t = "chi_square_test" THEN ChiSquareTest(data)
        ELSE IF t = "entropy" THEN CalculateEntropy(data)
        ELSE SerialCorrelationTest(data)]

\* results['tests'] when the sub-tests in raising take their except branch
RunTests(data, raising) ==
    [t \in TestNames |->
        IF t \in raising THEN ErrorMarker
        ELSE IF t = "frequency_test" THEN FrequencyTest(data)
        ELSE IF t = "runs_test" THEN RunsTest(data)
        ELSE IF t = "chi_square_test" THEN ChiSquareTest(data)
        ELSE IF t = "entropy" THEN CalculateEntropy(data)
        ELSE SerialCorrelationTest(data)]

\* isinstance(test, dict): results and error markers are both dictionaries
IsDict(test) == \A key \in DOMAIN test : key \in STRING

\* test.get('passed', False)
GetPassed(test) == IF "passed" \in DOMAIN test THEN test.passed ELSE FALSE

\* sum(1 for test in tests.values() if isinstance(test, dict) and test.get('passed', False))
PassedTests(tests) == Cardinality({t \in DOMAIN tests : IsDict(tests[t]) /\ GetPassed(tests[t])})

\* len([t for t in tests.values() if isinstance(t, dict)])
TotalTests(tests) == Cardinality({t \in DOMAIN tests : IsDict(tests[t])})

\* the ratio turned upside down
QualityScoreInverted(passed_tests, total_tests) ==
    IF passed_tests > 0 THEN [num |-> total_tests, den |-> passed_tests] ELSE [num |-> 0, den |-> 1]
\* passed_tests / total_tests if total_tests > 0 else 0, as the fraction num/den
QualityScore(passed_tests, total_tests) ==
    IF total_tests > 0 THEN [num |-> passed_tests, den |-> total_tests] ELSE [num |-> 0, den |-> 1]

\* the label with strict comparisons
AssessmentStrict(passed_tests, total_tests) ==
    IF 10 * passed_tests > 8 * total_tests THEN "GOOD"
    ELSE IF 10 * passed_tests > 6 * total_tests THEN "FAIR"
    ELSE "POOR"

\* 'GOOD' if passed >= total * 0.8 else 'FAIR' if passed >= total * 0.6 else 'POOR'
Assessment(passed_tests, total_tests) ==
    IF 10 * passed_tests >= 8 * total_tests THEN "GOOD"
    ELSE IF 10 * passed_tests >= 6 * total_tests THEN "FAIR"
    ELSE "POOR"

\* results['overall_quality'] of the sub-test entries tests
OverallQuality(tests) ==
    LET passed_tests == PassedTests(tests)
        total_tests == TotalTests(tests)
    IN  [passed_tests |-> passed_tests,
         total_tests |-> total_tests,
         quality_score |-> QualityScore(passed_tests, total_tests),
         assessment |-> Assessment(passed_tests, total_tests)]

\* validate_randomness: the returned dictionary
ValidateRandomness(data, raising) ==
    LET tests == RunTests(data, raising)
    IN  [data_size_bytes |-> Len(data),
         tests |-> tests,
         overall_quality |-> OverallQuality(tests)]

\* abs(x)
Abs(x) == IF x < 0 THEN -x ELSE x

\* a get_quality_metrics that counts its calls into the entropy
GetQualityMetricsCounting(data) ==
    LET bits == UnpackBits(data)
        n == Len(bits)
        ones == SumSeq(bits)
    IN  [entropy |-> ShannonEntropy(data) + Len(qm_results),
         ones_ratio |-> [num |-> ones, den |-> n],
         uniformity_score |-> [num |-> n - Abs(2 * ones - n), den |-> n]]

\* get_quality_metrics(data) for a bytes object: entropy as in
\* _calculate_entropy, ones_ratio = np.sum(bits) / len(bits) and
\* uniformity_score = 1.0 - abs(ones_ratio - 0.5) * 2, as fractions; on no
\* data both are 0/0 (nan). It reads nothing but its argument.
GetQualityMetrics(data) ==
    LET bits == UnpackBits(data)
        n == Len(bits)
        ones == SumSeq(bits)
    IN  [entropy |-> ShannonEntropy(data),
         ones_ratio |-> [num |-> ones, den |-> n],
         uniformity_score |-> [num |-> n - Abs(2 * ones - n), den |-> n]]

\* ------------------------------------------------------- SpecVal: actions
ValInputs == SeqsUpTo(ValByteVals, MaxValLen)

NoResults == [data_size_bytes |-> 0]

\* nothing was returned yet
NoMetrics == [called |-> FALSE]

\* QuantumRandomGenerator.__init__ and no get_quality_metrics call made
InitQmVars ==
    /\ qm_results = <<>>
    /\ qm_other = NoMetrics
    /\ qrg_generation_history = <<>>

IdleValVars ==
    /\ v_pc = "off"
    /\ v_data = <<>>
    /\ v_results = NoResults
    /\ InitQmVars

\* validate_randomness(data), no sub-test raising
Validate ==
    /\ v_pc = "input"
    /\ v_results' = ValidateRandomness(v_data, {})
    /\ v_pc' = "done"
    /\ UNCHANGED <<v_data, qmVars, debVars, bufVars, monVars, routeVars>>

\* validate_randomness(data) with some sub-tests ending in their except branch
ValidateSubtestRaises ==
    /\ v_pc = "input"
    /\ \E raising \in (SUBSET TestNames) \ {{}} :
          v_results' = ValidateRandomness(v_data, raising)
    /\ v_pc' = "done"
    /\ UNCHANGED <<v_data, qmVars, debVars, bufVars, monVars, routeVars>>

\* what a sub-test can return as far as the aggregate reads it: a result
\* that passed, a result that did not, or the error marker
SubtestOutcomes == {[passed |-> TRUE], [passed |-> FALSE], ErrorMarker}

\* validate_randomness from line 53 on, the five entries of results['tests']
\* being filled in
Assess ==
    /\ v_pc = "tests"
    /\ v_results' = [data_size_bytes |-> v_results.data_size_bytes,
                     tests |-> v_results.tests,
                     overall_quality |-> OverallQuality(v_results.tests)]
    /\ v_pc' = "done"
    /\ UNCHANGED <<v_data, qmVars, debVars, bufVars, monVars, routeVars>>

\* get_quality_metrics(v_data): one more call on the same buffer; the method
\* assigns no attribute of the generator
QuickMetrics ==
    /\ v_pc \in {"input", "done"}
    /\ Len(qm_results) < MaxQmCalls
    /\ qm_results' = Append(qm_results, GetQualityMetrics(v_data))
    /\ UNCHANGED <<v_pc, v_data, v_results, qm_other, qrg_generation_history,
                   debVars, bufVars, monVars, routeVars>>

\* get_quality_metrics(data) on another buffer, after Len(qm_results) calls
\* on v_data
QuickMetricsOther(data) ==
    /\ v_pc \in {"input", "done"}
    /\ qm_other' = [called |-> TRUE, after |-> Len(qm_results),
                    metrics |-> GetQualityMetrics(data)]
    /\ UNCHANGED <<v_pc, v_data, v_results, qm_results, qrg_generation_history,
                   debVars, bufVars, monVars, routeVars>>

\* ------------------------------------------------------ metrics aggregator
\* deque.append without the bound: an ordinary list
DequeAppendUnbounded(q, x, maxlen) == Append(q, x)
\* deque(maxlen=maxlen).append(x): once full, the oldest element is dropped
DequeAppend(q, x, maxlen) ==
    IF maxlen = 0 THEN <<>>
    ELSE IF Len(q) >= maxlen THEN Append(Tail(q), x)
    ELSE Append(q, x)

\* the throughput without the guard on the duration: a duration of zero
\* counts as one millisecond and a negative one gives a negative throughput
ThroughputMbpsUnguarded(size_bytes, time_ms) ==
    (size_bytes * 8) \div ((IF time_ms = 0 THEN 1 ELSE time_ms) * 1000)
\* throughput_mbps = (size_bytes * 8) / (generation_time * 1_000_000) if
\* generation_time > 0 else 0, with generation_time given in milliseconds
ThroughputMbps(size_bytes, time_ms) ==
    IF time_ms > 0 THEN (size_bytes * 8) \div (time_ms * 1000) ELSE 0

NoEvent == [timestamp |-> -1]

\* a rational number num / den with den > 0
Frac(n, d) == [num |-> n, den |-> d]

\* self.current_metrics after __init__ and after reset_statistics
ZeroMetrics ==
    [instantaneous_throughput_mbps |-> Frac(0, 1),
     average_throughput_mbps |-> Frac(0, 1),
     peak_throughput_mbps |-> 0,
     average_latency_ms |-> Frac(0, 1),
     requests_per_second |-> Frac(0, WindowSeconds),
     active_connections |-> 0,
     total_bytes_generated |-> 0,
     total_requests |-> 0,
     uptime_seconds |-> 0]

\* no dictionary returned yet
NoSnapshot == [taken |-> FALSE]
NoHealth == [taken |-> FALSE]

\* the value of a missing key of source_stats (the defaultdict's factory)
NewSourceStats ==
    [requests |-> 0, bytes_generated |-> 0, total_time |-> 0,
     average_throughput_mbps |-> [num |-> 0, den |-> 1], error_count |-> 0]

\* the statistics of one source after an event: requests, bytes and time
\* grow, the average is recomputed when total_time > 0
UpdatedSourceStats(st, size_bytes, time_ms) ==
    LET bytes == st.bytes_generated + size_bytes
        total == st.total_time + time_ms
    IN  [requests |-> st.requests + 1,
         bytes_generated |-> bytes,
         total_time |-> total,
         average_throughput_mbps |->
            IF total > 0 THEN [num |-> bytes * 8, den |-> total * 1000]
            ELSE st.average_throughput_mbps,
         error_count |-> st.error_count]

InitMonVars ==
    /\ generation_history = <<>>
    /\ throughput_history = <<>>
    /\ latency_history = <<>>
    /\ request_timestamps = <<>>
    /\ source_stats = <<>>
    /\ current_metrics = ZeroMetrics
    /\ quality_metrics = [entropy_scores |-> <<>>, uniformity_scores |-> <<>>,
                          correlation_scores |-> <<>>, last_quality_check |-> -1]
    /\ last_request_time = -1
    /\ now = 0
    /\ monitoring_active = TRUE
    /\ m_pc = "loop"
    /\ start_time = 0
    /\ snapshot = NoSnapshot
    /\ health = NoHealth
    /\ n_reads = 0
    /\ r_pc = [r \in Recorders |-> "idle"]
    /\ r_event = [r \in Recorders |-> NoEvent]
    /\ n_records = 0
    /\ n_quality = 0
    /\ event_log = <<>>
    /\ quality_log = <<>>

\* record_generation: timestamp = datetime.utcnow(); throughput_mbps = ...
\* (before the lock is taken)
RecordBegin(r, size_bytes, time_ms, source) ==
    /\ r_pc[r] = "idle"
    /\ n_records < MaxRecords
    /\ n_records' = n_records + 1
    /\ r_event' = [r_event EXCEPT ![r] =
            [timestamp |-> now, size_bytes |-> size_bytes, generation_time |-> time_ms,
             throughput_mbps |-> ThroughputMbps(size_bytes, time_ms), source |-> source]]
    /\ r_pc' = [r_pc EXCEPT ![r] = "lock"]
    /\ UNCHANGED <<generation_history, throughput_history, latency_history,
                   request_timestamps, source_stats, current_metrics, quality_metrics,
                   last_request_time, now, n_quality, event_log, quality_log, rtVars>>

\* record_generation: the body of with self.lock
RecordCommit(r) ==
    /\ r_pc[r] = "lock"
    /\ LET e == r_event[r]
           st == IF e.source \in DOMAIN source_stats
                 THEN source_stats[e.source] ELSE NewSourceStats
       IN  /\ generation_history' = DequeAppend(generation_history, e, HistorySize)
           /\ throughput_history' = DequeAppend(throughput_history, e.throughput_mbps, HistorySize)
           /\ latency_history' = DequeAppend(latency_history, e.generation_time, HistorySize)
           /\ request_timestamps' = DequeAppend(request_timestamps, e.timestamp, TimestampMaxLen)
           /\ source_stats' =
                 [src \in DOMAIN source_stats \cup {e.source} |->
                     IF src = e.source
                     THEN UpdatedSourceStats(st, e.size_bytes, e.generation_time)
                     ELSE source_stats[src]]
           /\ current_metrics' =
                 [current_metrics EXCEPT !.total_bytes_generated = @ + e.size_bytes,
                                         !.total_requests = @ + 1]
           /\ last_request_time' = e.timestamp
           /\ event_log' = Append(event_log, e)
    /\ r_event' = [r_event EXCEPT ![r] = NoEvent]
    /\ r_pc' = [r_pc EXCEPT ![r] = "idle"]
    /\ UNCHANGED <<quality_metrics, now, n_records, n_quality, quality_log, rtVars>>

\* record_quality_metrics(entropy, uniformity, correlation)
RecordQualityMetrics(entropy, uniformity, correlation) ==
    /\ n_quality < MaxQualityRecords
    /\ n_quality' = n_quality + 1
    /\ quality_metrics' =
          [entropy_scores |-> DequeAppend(quality_metrics.entropy_scores, entropy, QualityMaxLen),
           uniformity_scores |-> DequeAppend(quality_metrics.uniformity_scores, uniformity, QualityMaxLen),
           correlation_scores |-> DequeAppend(quality_metrics.correlation_scores, correlation, QualityMaxLen),
           last_quality_check |-> now]
    /\ quality_log' = Append(quality_log, <<entropy, uniformity, correlation>>)
    /\ UNCHANGED <<generation_history, throughput_history, latency_history,
                   request_timestamps, source_stats, current_metrics, last_request_time,
                   now, r_pc, r_event, n_records, event_log, rtVars>>

\* the dictionary a caller holds after source_stats.clear(): the inner
\* dictionaries it shared with source_stats are its own from now on and keep
\* the values they have
DetachedSnapshot(snap) ==
    IF ~snap.taken THEN snap
    ELSE [snap EXCEPT !.source_statistics =
            [src \in DOMAIN snap.source_statistics |->
                IF snap.source_statistics[src].shared
                THEN [shared |-> FALSE, value |-> source_stats[src]]
                ELSE snap.source_statistics[src]]]

\* a reset that clears the histories but leaves current_metrics as it is
ResetStatisticsKeepsMetrics ==
    /\ generation_history' = <<>>
    /\ throughput_history' = <<>>
    /\ latency_history' = <<>>
    /\ request_timestamps' = <<>>
    /\ current_metrics' = current_metrics
    /\ source_stats' = <<>>
    /\ snapshot' = snapshot
    /\ start_time' = now
    /\ quality_metrics' = [entropy_scores |-> <<>>, uniformity_scores |-> <<>>,
                           correlation_scores |-> <<>>, last_quality_check |-> -1]
    /\ last_request_time' = -1
    /\ event_log' = <<>>
    /\ quality_log' = <<>>
    /\ \/ event_log # <<>>
       \/ quality_log # <<>>
    /\ UNCHANGED <<now, r_pc, r_event, n_records, n_quality,
                   monitoring_active, m_pc, health, n_reads>>

\* a reset that zeroes the counters but leaves source_stats as it is
ResetStatisticsKeepsSources ==
    /\ generation_history' = <<>>
    /\ throughput_history' = <<>>
    /\ latency_history' = <<>>
    /\ request_timestamps' = <<>>
    /\ current_metrics' = ZeroMetrics
    /\ source_stats' = source_stats
    /\ snapshot' = snapshot
    /\ start_time' = now
    /\ quality_metrics' = [entropy_scores |-> <<>>, uniformity_scores |-> <<>>,
                           correlation_scores |-> <<>>, last_quality_check |-> -1]
    /\ last_request_time' = -1
    /\ event_log' = <<>>
    /\ quality_log' = <<>>
    /\ \/ event_log # <<>>
       \/ quality_log # <<>>
    /\ UNCHANGED <<now, r_pc, r_event, n_records, n_quality,
                   monitoring_active, m_pc, health, n_reads>>

\* reset_statistics(): the body of with self.lock
ResetStatistics ==
    /\ generation_history' = <<>>
    /\ throughput_history' = <<>>
    /\ latency_history' = <<>>
    /\ request_timestamps' = <<>>
    /\ current_metrics' = ZeroMetrics
    /\ source_stats' = <<>>
    /\ snapshot' = DetachedSnapshot(snapshot)
    /\ start_time' = now
    /\ quality_metrics' = [entropy_scores |-> <<>>, uniformity_scores |-> <<>>,
                           correlation_scores |-> <<>>, last_quality_check |-> -1]
    /\ last_request_time' = -1
    /\ event_log' = <<>>
    /\ quality_log' = <<>>
    /\ \/ event_log # <<>>
       \/ quality_log # <<>>
    /\ UNCHANGED <<now, r_pc, r_event, n_records, n_quality,
                   monitoring_active, m_pc, health, n_reads>>

\* the clock advances
Tick ==
    /\ now < MaxClock
    /\ now' = now + 1
    /\ UNCHANGED <<generation_history, throughput_history, latency_history,
                   request_timestamps, source_stats, current_metrics, quality_metrics,
                   last_request_time, r_pc, r_event, n_records, n_quality,
                   event_log, quality_log, rtVars>>

RECURSIVE MaxSeq(_)
\* max(s) of a non-empty sequence
MaxSeq(s) ==
    IF Len(s) = 1 THEN s[1]
    ELSE LET m == MaxSeq(Tail(s)) IN IF s[1] > m THEN s[1] ELSE m

RECURSIVE MinSeq(_)
\* min(s) of a non-empty sequence
MinSeq(s) ==
    IF Len(s) = 1 THEN s[1]
    ELSE LET m == MinSeq(Tail(s)) IN IF s[1] < m THEN s[1] ELSE m

\* np.mean(s) of a non-empty sequence
Mean(s) == Frac(SumSeq(s), Len(s))

\* the timestamps of request_timestamps within the last 60 seconds
RecentRequests(current_time) ==
    {i \in 1..Len(request_timestamps) : current_time - request_timestamps[i] <= WindowTicks}

\* a recomputation that also recounts total_requests from the event window
UpdateRealTimeMetricsRecount ==
    /\ current_metrics' =
          [current_metrics EXCEPT
              !.uptime_seconds = now - start_time,
              !.requests_per_second = Frac(Cardinality(RecentRequests(now)), WindowSeconds),
              !.total_requests = Len(generation_history)]
    /\ UNCHANGED <<generation_history, throughput_history, latency_history,
                   request_timestamps, source_stats, quality_metrics, last_request_time,
                   now, r_pc, r_event, n_records, n_quality, event_log, quality_log,
                   monitoring_active, start_time, snapshot, health, n_reads>>

\* a recomputation that keeps the highest peak it has seen
UpdateRealTimeMetricsAllTimePeak ==
    /\ current_metrics' =
          [current_metrics EXCEPT
              !.uptime_seconds = now - start_time,
              !.requests_per_second = Frac(Cardinality(RecentRequests(now)), WindowSeconds),
              !.instantaneous_throughput_mbps =
                  IF throughput_history # <<>>
                  THEN Mean(LastN(throughput_history, RecentWindow)) ELSE @,
              !.average_throughput_mbps =
                  IF throughput_history # <<>> THEN Mean(throughput_history) ELSE @,
              !.peak_throughput_mbps =
                  IF throughput_history # <<>> /\ MaxSeq(throughput_history) > @
                  THEN MaxSeq(throughput_history) ELSE @,
              !.average_latency_ms =
                  IF latency_history # <<>> THEN Mean(latency_history) ELSE @]
    /\ UNCHANGED <<generation_history, throughput_history, latency_history,
                   request_timestamps, source_stats, quality_metrics, last_request_time,
                   now, r_pc, r_event, n_records, n_quality, event_log, quality_log,
                   monitoring_active, start_time, snapshot, health, n_reads>>

\* _update_real_time_metrics(): the body of with self.lock
UpdateRealTimeMetrics ==
    /\ current_metrics' =
          [current_metrics EXCEPT
              !.uptime_seconds = now - start_time,
              !.requests_per_second = Frac(Cardinality(RecentRequests(now)), WindowSeconds),
              !.instantaneous_throughput_mbps =
                  IF throughput_history # <<>>
                  THEN Mean(LastN(throughput_history, RecentWindow)) ELSE @,
              !.average_throughput_mbps =
                  IF throughput_history # <<>> THEN Mean(throughput_history) ELSE @,
              !.peak_throughput_mbps =
                  IF throughput_history # <<>> THEN MaxSeq(throughput_history) ELSE @,
              !.average_latency_ms =
                  IF latency_history # <<>> THEN Mean(latency_history) ELSE @]
    /\ UNCHANGED <<generation_history, throughput_history, latency_history,
                   request_timestamps, source_stats, quality_metrics, last_request_time,
                   now, r_pc, r_event, n_records, n_quality, event_log, quality_log,
                   monitoring_active, start_time, snapshot, health, n_reads>>

\* monitor_worker: while self.monitoring_active
MonitorLoop ==
    /\ m_pc = "loop"
    /\ m_pc' = IF monitoring_active THEN "update" ELSE "exited"
    /\ UNCHANGED <<generation_history, throughput_history, latency_history,
                   request_timestamps, source_stats, current_metrics, quality_metrics,
                   last_request_time, now, r_pc, r_event, n_records, n_quality,
                   event_log, quality_log, monitoring_active, start_time, snapshot,
                   health, n_reads>>

\* monitor_worker: self._update_real_time_metrics()
MonitorUpdate ==
    /\ m_pc = "update"
    /\ m_pc' = "sleep"
    /\ UpdateRealTimeMetrics

\* monitor_worker: time.sleep(1)
MonitorSleep ==
    /\ m_pc = "sleep"
    /\ m_pc' = "loop"
    /\ UNCHANGED <<generation_history, throughput_history, latency_history,
                   request_timestamps, source_stats, current_metrics, quality_metrics,
                   last_request_time, now, r_pc, r_event, n_records, n_quality,
                   event_log, quality_log, monitoring_active, start_time, snapshot,
                   health, n_reads>>

\* stop_monitoring()
StopMonitoring ==
    /\ monitoring_active
    /\ monitoring_active' = FALSE
    /\ UNCHANGED <<generation_history, throughput_history, latency_history,
                   request_timestamps, source_stats, current_metrics, quality_metrics,
                   last_request_time, now, r_pc, r_event, n_records, n_quality,
                   event_log, quality_log, m_pc, start_time, snapshot, health, n_reads>>

\* one entry of _get_quality_summary: current, average, min, max of a deque
ScoreSummary(scores) ==
    IF scores = <<>> THEN [sample_count |-> 0]
    ELSE [sample_count |-> Len(scores), current |-> scores[Len(scores)],
          average |-> Mean(scores), min |-> MinSeq(scores), max |-> MaxSeq(scores)]

\* _get_quality_summary()
QualitySummary ==
    [last_check |-> quality_metrics.last_quality_check,
     sample_count |-> Len(quality_metrics.entropy_scores),
     entropy |-> ScoreSummary(quality_metrics.entropy_scores),
     uniformity |-> ScoreSummary(quality_metrics.uniformity_scores),
     correlation |-> ScoreSummary(quality_metrics.correlation_scores)]

\* _get_throughput_distribution() and _get_latency_distribution(): mean,
\* min and max (the median, deviation and percentiles are left out)
Distribution(history) ==
    IF history = <<>> THEN [count |-> 0]
    ELSE [count |-> Len(history), mean |-> Mean(history),
          min |-> MinSeq(history), max |-> MaxSeq(history)]

\* _get_recent_activity(): the newest events of generation_history
RecentActivity == LastN(generation_history, ActivityWindow)

\* get_statistics(): the body of with self.lock. current_metrics is copied;
\* dict(self.source_stats) copies the outer dictionary only, so every entry
\* of source_statistics is the inner dictionary source_stats itself holds
GetStatistics ==
    /\ n_reads < MaxReads
    /\ n_reads' = n_reads + 1
    /\ snapshot' =
          [taken |-> TRUE,
           timestamp |-> now,
           uptime_seconds |-> current_metrics.uptime_seconds,
           real_time_metrics |-> current_metrics,
           source_statistics |->
               [src \in DOMAIN source_stats |-> [shared |-> TRUE, value |-> source_stats[src]]],
           quality_metrics |-> QualitySummary,
           throughput_distribution |-> Distribution(throughput_history),
           latency_distribution |-> Distribution(latency_history),
           recent_activity |-> RecentActivity]
    /\ UNCHANGED <<generation_history, throughput_history, latency_history,
                   request_timestamps, source_stats, current_metrics, quality_metrics,
                   last_request_time, now, r_pc, r_event, n_records, n_quality,
                   event_log, quality_log, monitoring_active, m_pc, start_time, health>>

\* what the holder of a snapshot reads in source_statistics[src]
SnapshotSourceStats(snap, src) ==
    IF snap.source_statistics[src].shared
    THEN source_stats[src]
    ELSE snap.source_statistics[src].value

\* the same rational number in lowest terms
Reduced(f) ==
    LET g == Gcd(IF f.num < 0 THEN -f.num ELSE f.num, f.den)
    IN  Frac(f.num \div g, f.den \div g)

\* min(f, 1.0)
FracMin1(f) == IF f.num < f.den THEN Reduced(f) ELSE Frac(1, 1)
\* max(f, 0.0)
FracMax0(f) == IF f.num > 0 THEN Reduced(f) ELSE Frac(0, 1)

\* throughput_health = min(avg_throughput / target_throughput, 1.0)
ThroughputHealth ==
    LET avg == current_metrics.average_throughput_mbps
    IN  FracMin1(Frac(avg.num, avg.den * TargetThroughput))

\* latency_health = max(1.0 - (avg_latency / 1000.0), 0.0)
LatencyHealth ==
    LET avg == current_metrics.average_latency_ms
    IN  FracMax0(Frac(1000 * avg.den - avg.num, 1000 * avg.den))

\* quality_health = min(mean of the newest entropy scores / 8.0, 1.0), or
\* 1.0 without scores; the scores are in hundredths
QualityHealth ==
    IF quality_metrics.entropy_scores = <<>> THEN Frac(1, 1)
    ELSE LET recent_entropy == LastN(quality_metrics.entropy_scores, RecentWindow)
         IN  FracMin1(Frac(SumSeq(recent_entropy), 800 * Len(recent_entropy)))

\* (a + b + c) / 3
OverallHealth(a, b, c) ==
    Reduced(Frac(a.num * b.den * c.den + b.num * a.den * c.den + c.num * a.den * b.den,
                 3 * a.den * b.den * c.den))

\* get_system_health(): the body of with self.lock
GetSystemHealth ==
    /\ n_reads < MaxReads
    /\ n_reads' = n_reads + 1
    /\ LET overall_health == OverallHealth(ThroughputHealth, LatencyHealth, QualityHealth)
       IN  health' =
             [taken |-> TRUE,
              overall_health_score |-> overall_health,
              status |-> IF 5 * overall_health.num > 4 * overall_health.den THEN "healthy"
                         ELSE IF 2 * overall_health.num > overall_health.den
                              THEN "degraded" ELSE "critical",
              is_active |-> /\ last_request_time # -1
                            /\ now - last_request_time < WindowTicks,
              health_indicators |->
                  [throughput_health |-> ThroughputHealth,
                   latency_health |-> LatencyHealth,
                   quality_health |-> QualityHealth],
              last_activity |-> last_request_time,
              uptime_seconds |-> current_metrics.uptime_seconds,
              timestamp |-> now]
    /\ UNCHANGED <<generation_history, throughput_history, latency_history,
                   request_timestamps, source_stats, current_metrics, quality_metrics,
                   last_request_time, now, r_pc, r_event, n_records, n_quality,
                   event_log, quality_log, monitoring_active, m_pc, start_time, snapshot>>

\* -------------------------------------------------------------- ANU client
\* the cache keys f"random_{size}" of the sizes _single_request is asked for
AnuKeys == 1..AnuChunkLimit

\* a key that is not in self.cache
NoCacheEntry == [present |-> FALSE, data |-> <<>>, timestamp |-> 0]

\* __init__: empty cache, last_request_time = 0 (the epoch, long before the
\* first call), no _last_successful_request attribute, zeroed counters
InitAnuVars ==
    /\ anu_now = 0
    /\ anu_pc = "idle"
    /\ anu_via = "none"
    /\ anu_size = 0
    /\ anu_remaining = 0
    /\ anu_result = <<>>
    /\ anu_chunks = <<>>
    /\ anu_cache = [k \in AnuKeys |-> NoCacheEntry]
    /\ anu_last_request_time = 0 - MinRequestInterval
    /\ anu_last_successful_request = [set |-> FALSE, time |-> 0]
    /\ anu_stats = [total_requests |-> 0, successful_requests |-> 0,
                    failed_requests |-> 0, cache_hits |-> 0]
    /\ anu_http_log = <<>>
    /\ anu_calls = 0

\* bytes(data['data']) of the remote response number resp to a request of
\* length size: every byte stands for the response it came from
ResponseBytes(resp, size) == [i \in 1..size |-> resp]

\* _get_cached_data: the value it returns at time t (<<>> is None)
GetCachedData(cache, key, t) ==
    IF cache[key].present /\ t - cache[key].timestamp < CacheTtlTicks
    THEN cache[key].data
    ELSE <<>>

\* _get_cached_data: the cache it leaves, an expired entry being deleted
CacheAfterGet(cache, key, t) ==
    IF cache[key].present /\ ~(t - cache[key].timestamp < CacheTtlTicks)
    THEN [cache EXCEPT ![key] = NoCacheEntry]
    ELSE cache

\* _cache_data: store (data, time.time()) under key, then delete every
\* entry whose age has reached cache_ttl
CacheData(cache, key, data, t) ==
    [k \in AnuKeys |->
        IF k = key THEN [present |-> TRUE, data |-> data, timestamp |-> t]
        ELSE IF cache[k].present /\ t - cache[k].timestamp >= CacheTtlTicks
             THEN NoCacheEntry
             ELSE cache[k]]

\* where a call that raised ends: generate_random_bytes re-raises,
\* validate_with_anu catches and returns an error dictionary
AnuRaised(via) == IF via = "validate" THEN "invalid" ELSE "raised"

\* generate_random_bytes(size), called directly or by validate_with_anu, up
\* to the choice of the branch: the cooldown check against
\* _last_successful_request; remaining = size
AnuCall(size, via) ==
    /\ anu_pc = "idle"
    /\ anu_calls < MaxAnuCalls
    /\ anu_calls' = anu_calls + 1
    /\ anu_via' = via
    /\ anu_size' = size
    /\ anu_result' = <<>>
    /\ anu_chunks' = <<>>
    /\ IF /\ anu_last_successful_request.set
          /\ anu_now - anu_last_successful_request.time < CooldownTicks
       THEN /\ anu_stats' = [anu_stats EXCEPT !.failed_requests = @ + 1]
            /\ anu_pc' = AnuRaised(via)
            /\ anu_remaining' = 0
       ELSE /\ anu_remaining' = size
            /\ anu_pc' = "chunk"
            /\ UNCHANGED anu_stats
    /\ UNCHANGED <<anu_now, anu_cache, anu_last_request_time,
                   anu_last_successful_request, anu_http_log>>

\* chunk_size = min(remaining, 1024) in the loop, size on the single path
AnuChunkSize == IF anu_size > AnuChunkLimit THEN Min(anu_remaining, AnuChunkLimit) ELSE anu_size

\* the end of one loop iteration (or of the single request) that got data:
\* result.extend, remaining -= chunk_size, time.sleep(min_request_interval)
\* when bytes remain; t is the time at which the data arrived
AnuAfterChunk(data, from_cache, t) ==
    /\ anu_result' = anu_result \o data
    /\ anu_chunks' = Append(anu_chunks, [resp |-> data[1], cached |-> from_cache])
    /\ anu_remaining' = anu_remaining - AnuChunkSize
    /\ IF anu_remaining - AnuChunkSize > 0
       THEN /\ anu_pc' = "chunk"
            /\ anu_now' = t + MinRequestInterval
       ELSE /\ anu_pc' = "returned"
            /\ anu_now' = t

\* _single_request(chunk_size) and the rest of the loop iteration: a valid
\* cache entry is returned without a request; otherwise the client waits
\* until min_request_interval has passed since last_request_time, sends the
\* request, and on success caches the response and sets
\* _last_successful_request; a failed request raises through both handlers
AnuChunk(ok, elapsed) ==
    /\ anu_pc = "chunk"
    /\ LET key == AnuChunkSize
           cached == GetCachedData(anu_cache, key, anu_now)
           sent == IF anu_now - anu_last_request_time < MinRequestInterval
                   THEN anu_last_request_time + MinRequestInterval
                   ELSE anu_now
           answered == sent + elapsed
           resp == Len(anu_http_log) + 1
       IN IF cached # <<>>
          THEN /\ anu_stats' = [anu_stats EXCEPT !.cache_hits = @ + 1]
               /\ AnuAfterChunk(cached, TRUE, anu_now)
               /\ UNCHANGED <<anu_cache, anu_last_request_time,
                              anu_last_successful_request, anu_http_log>>
          ELSE /\ anu_http_log' = Append(anu_http_log,
                                     [sent |-> sent, answered |-> answered, ok |-> ok])
               /\ anu_last_request_time' = answered
               /\ IF ok
                  THEN /\ anu_cache' = CacheData(CacheAfterGet(anu_cache, key, anu_now),
                                                 key, ResponseBytes(resp, key), answered)
                       /\ anu_stats' = [anu_stats EXCEPT !.total_requests = @ + 1,
                                                         !.successful_requests = @ + 1]
                       /\ anu_last_successful_request' = [set |-> TRUE, time |-> answered]
                       /\ AnuAfterChunk(ResponseBytes(resp, key), FALSE, answered)
                  ELSE /\ anu_cache' = CacheAfterGet(anu_cache, key, anu_now)
                       /\ anu_stats' = [anu_stats EXCEPT !.total_requests = @ + 1,
                                                         !.failed_requests = @ + 2]
                       /\ anu_pc' = AnuRaised(anu_via)
                       /\ anu_now' = answered
                       /\ UNCHANGED <<anu_last_successful_request, anu_result,
                                      anu_chunks, anu_remaining>>
    /\ UNCHANGED <<anu_via, anu_size, anu_calls>>

\* the caller takes the result or the exception
AnuDone ==
    /\ anu_pc \in {"returned", "raised", "invalid"}
    /\ anu_pc' = "idle"
    /\ UNCHANGED <<anu_now, anu_via, anu_size, anu_remaining, anu_result, anu_chunks,
                   anu_cache, anu_last_request_time, anu_last_successful_request,
                   anu_stats, anu_http_log, anu_calls>>

\* time passes while no call is in progress
AnuTick ==
    /\ anu_pc = "idle"
    /\ anu_now < AnuMaxClock
    /\ anu_now' = anu_now + 1
    /\ UNCHANGED <<anu_pc, anu_via, anu_size, anu_remaining, anu_result, anu_chunks,
                   anu_cache, anu_last_request_time, anu_last_successful_request,
                   anu_stats, anu_http_log, anu_calls>>

\* ---------------------------------------------------------- route handlers
\* the keys of TECHNIQUES
TECHNIQUES == {"fpga", "anu", "hybrid", "cryptographic"}

\* the technique arguments of get_random_bytes: the known ones and one that
\* is no key of TECHNIQUES
GrbArgs == TECHNIQUES \cup {"quantum"}

\* nothing returned
NoMetadata == [technique |-> "none"]

\* metadata['source'] of a technique
SourceOf(technique) ==
    IF technique = "fpga" THEN "FPGA Quantum Simulator"
    ELSE IF technique = "anu" THEN "ANU Quantum API"
    ELSE IF technique = "hybrid" THEN "FPGA + ANU Validation"
    ELSE "OS Cryptographic"

\* the module-level aggregators: perf_monitor = PerformanceMonitor() in
\* routes.py and in generate_routes.py
Monitors == {"routes.perf_monitor", "generate_routes.perf_monitor"}

\* no /api/stats response yet
NoStats == [taken |-> FALSE]

InitRouteVars ==
    /\ q_pc = [q \in Requests |-> "idle"]
    /\ q_route = [q \in Requests |-> "none"]
    /\ q_technique = [q \in Requests |-> "none"]
    /\ q_todo = [q \in Requests |-> 0]
    /\ gen_calls = [q \in Requests |-> 0]
    /\ rec_events = [q \in Requests |-> 0]
    /\ q_status = [q \in Requests |-> 0]
    /\ n_requests = 0
    /\ lock = "free"
    /\ t_op = [t \in LockThreads |-> "idle"]
    /\ t_pos = [t \in LockThreads |-> 0]
    /\ grb_pc = [q \in Requests |-> "idle"]
    /\ grb_arg = [q \in Requests |-> "none"]
    /\ grb_technique = [q \in Requests |-> "none"]
    /\ grb_depth = [q \in Requests |-> 0]
    /\ grb_failed = [q \in Requests |-> <<>>]
    /\ grb_result = [q \in Requests |-> NoMetadata]
    /\ InitAnuVars
    /\ requested_bytes = 0
    /\ monitor_requests = [m \in Monitors |-> 0]
    /\ stats_served = NoStats

\* the endpoints of routes.py; the others are in generate_routes.py and go
\* through get_random_bytes
ApiRoutes == {"random", "keys", "validate"}

\* the endpoints whose handler calls perf_monitor.record_generation
RecordingRoutes == {"random", "boolean", "hash", "number", "custom"}

\* the aggregator a handler's perf_monitor names: the global of its module
MonitorOf(route) ==
    IF route \in ApiRoutes THEN "routes.perf_monitor" ELSE "generate_routes.perf_monitor"

\* a request arrives. /api/random answers 400 to a source other than fpga
\* and anu before it generates; /api/keys and /api/validate always use the
\* FPGA simulator; /hash asks for count seeds, the other handlers for one
\* block of bytes
RouteRequest(q, route, technique, count) ==
    /\ q_pc[q] = "idle"
    /\ n_requests < MaxRequests
    /\ n_requests' = n_requests + 1
    /\ q_route' = [q_route EXCEPT ![q] = route]
    /\ q_technique' = [q_technique EXCEPT ![q] =
            IF route \in {"keys", "validate"} THEN "fpga" ELSE technique]
    /\ gen_calls' = [gen_calls EXCEPT ![q] = 0]
    /\ rec_events' = [rec_events EXCEPT ![q] = 0]
    /\ IF route = "random" /\ technique \notin {"fpga", "anu"}
       THEN /\ q_pc' = [q_pc EXCEPT ![q] = "done"]
            /\ q_status' = [q_status EXCEPT ![q] = 400]
            /\ q_todo' = [q_todo EXCEPT ![q] = 0]
       ELSE /\ q_pc' = [q_pc EXCEPT ![q] = "generate"]
            /\ q_status' = [q_status EXCEPT ![q] = 0]
            /\ q_todo' = [q_todo EXCEPT ![q] = IF route = "hash" THEN count ELSE 1]
    /\ UNCHANGED <<lockVars, grbVars, anuVars, requested_bytes, servedVars>>

\* the handler asks for one block of random bytes. The FPGA simulator is
\* called once; the operating system's generator is no generator call; the
\* ANU generator is called once and may raise: /api/random then answers 500,
\* get_random_bytes falls back to a call of the FPGA simulator
GeneratorCall(q, raises) ==
    /\ q_pc[q] = "generate"
    /\ q_todo[q] > 0
    /\ raises => q_technique[q] = "anu"
    /\ gen_calls' = [gen_calls EXCEPT ![q] =
            IF q_technique[q] = "cryptographic" THEN @
            ELSE IF raises /\ q_route[q] \notin ApiRoutes THEN @ + 2
            ELSE @ + 1]
    /\ IF raises /\ q_route[q] \in ApiRoutes
       THEN /\ q_pc' = [q_pc EXCEPT ![q] = "done"]
            /\ q_status' = [q_status EXCEPT ![q] = 500]
            /\ q_todo' = [q_todo EXCEPT ![q] = 0]
       ELSE /\ q_todo' = [q_todo EXCEPT ![q] = @ - 1]
            /\ UNCHANGED <<q_pc, q_status>>
    /\ UNCHANGED <<q_route, q_technique, rec_events, n_requests, lockVars, grbVars, anuVars, requested_bytes, servedVars>>

\* the handler has its bytes: /api/keys and /api/validate answer without
\* recording; /api/random divides by the measured generation_time before it
\* records and answers 500 when the time is zero; the handlers of
\* generate_routes.py record one event and answer
RouteRecord(q, zero_time) ==
    /\ q_pc[q] = "generate"
    /\ q_todo[q] = 0
    /\ zero_time => q_route[q] = "random"
    /\ q_pc' = [q_pc EXCEPT ![q] = "done"]
    /\ IF q_route[q] \in RecordingRoutes /\ ~zero_time
       THEN /\ rec_events' = [rec_events EXCEPT ![q] = @ + 1]
            /\ monitor_requests' = [monitor_requests EXCEPT ![MonitorOf(q_route[q])] = @ + 1]
       ELSE UNCHANGED <<rec_events, monitor_requests>>
    /\ q_status' = [q_status EXCEPT ![q] = IF zero_time THEN 500 ELSE 200]
    /\ UNCHANGED <<q_route, q_technique, q_todo, gen_calls, n_requests, lockVars, grbVars, anuVars, requested_bytes,
                   stats_served>>

\* the response is sent and the handler's locals are gone
RouteRespond(q) ==
    /\ q_pc[q] = "done"
    /\ q_pc' = [q_pc EXCEPT ![q] = "idle"]
    /\ q_route' = [q_route EXCEPT ![q] = "none"]
    /\ q_technique' = [q_technique EXCEPT ![q] = "none"]
    /\ gen_calls' = [gen_calls EXCEPT ![q] = 0]
    /\ rec_events' = [rec_events EXCEPT ![q] = 0]
    /\ q_status' = [q_status EXCEPT ![q] = 0]
    /\ UNCHANGED <<q_todo, n_requests, lockVars, grbVars, anuVars, requested_bytes, servedVars>>

\* GET /api/stats of routes.py: jsonify(perf_monitor.get_statistics()) of
\* the aggregator of routes.py; recorded is the number of events all
\* handlers have recorded by then
RouteStats ==
    /\ stats_served' =
          [taken |-> TRUE,
           total_requests |-> monitor_requests["routes.perf_monitor"],
           recorded |-> monitor_requests["routes.perf_monitor"]
                          + monitor_requests["generate_routes.perf_monitor"]]
    /\ UNCHANGED <<q_pc, q_route, q_technique, q_todo, gen_calls, rec_events, q_status,
                   n_requests, lockVars, grbVars, anuVars, requested_bytes, monitor_requests>>

\* -------------------------------------------------------- get_random_bytes
\* a handler calls get_random_bytes(size, technique)
GrbCall(q, technique) ==
    /\ grb_pc[q] = "idle"
    /\ grb_pc' = [grb_pc EXCEPT ![q] = "try"]
    /\ grb_arg' = [grb_arg EXCEPT ![q] = technique]
    /\ grb_technique' = [grb_technique EXCEPT ![q] = technique]
    /\ grb_depth' = [grb_depth EXCEPT ![q] = 0]
    /\ grb_failed' = [grb_failed EXCEPT ![q] = <<>>]
    /\ grb_result' = [grb_result EXCEPT ![q] = NoMetadata]

\* the try block of the innermost frame: a technique that is no key of
\* TECHNIQUES raises ValueError; the generator of a known technique returns
\* or raises; the failures of validate_with_anu and of get_quality_metrics
\* are caught inside the block. On success the frame returns its metadata,
\* and an outer frame returns what the inner one returned
GrbTry(q, raises) ==
    /\ grb_pc[q] = "try"
    /\ IF grb_technique[q] \notin TECHNIQUES \/ raises
       THEN /\ grb_pc' = [grb_pc EXCEPT ![q] = "except"]
            /\ grb_failed' = [grb_failed EXCEPT ![q] = Append(@, grb_technique[q])]
            /\ UNCHANGED grb_result
       ELSE /\ grb_pc' = [grb_pc EXCEPT ![q] = "returned"]
            /\ grb_result' = [grb_result EXCEPT ![q] =
                    [technique |-> grb_technique[q], source |-> SourceOf(grb_technique[q])]]
            /\ UNCHANGED grb_failed
    /\ UNCHANGED <<grb_arg, grb_technique, grb_depth>>

\* an except block that raises again whatever the technique
GrbExceptNoFallback(q) ==
    /\ grb_pc[q] = "except"
    /\ grb_pc' = [grb_pc EXCEPT ![q] = "raised"]
    /\ UNCHANGED <<grb_arg, grb_technique, grb_depth, grb_failed, grb_result>>

\* the except block: if technique != 'fpga': return get_random_bytes(size,
\* 'fpga'), a new frame; otherwise raise, which also leaves the except
\* block of an outer frame
GrbExcept(q) ==
    /\ grb_pc[q] = "except"
    /\ IF grb_technique[q] # "fpga"
       THEN /\ grb_pc' = [grb_pc EXCEPT ![q] = "try"]
            /\ grb_technique' = [grb_technique EXCEPT ![q] = "fpga"]
            /\ grb_depth' = [grb_depth EXCEPT ![q] = @ + 1]
       ELSE /\ grb_pc' = [grb_pc EXCEPT ![q] = "raised"]
            /\ UNCHANGED <<grb_technique, grb_depth>>
    /\ UNCHANGED <<grb_arg, grb_failed, grb_result>>

\* the caller has its result or its exception
GrbDone(q) ==
    /\ grb_pc[q] \in {"returned", "raised"}
    /\ grb_pc' = [grb_pc EXCEPT ![q] = "idle"]
    /\ grb_arg' = [grb_arg EXCEPT ![q] = "none"]
    /\ grb_technique' = [grb_technique EXCEPT ![q] = "none"]
    /\ grb_depth' = [grb_depth EXCEPT ![q] = 0]
    /\ grb_failed' = [grb_failed EXCEPT ![q] = <<>>]
    /\ grb_result' = [grb_result EXCEPT ![q] = NoMetadata]

\* --------------------------------------------------------------- the locks
Locks == {"buffer_lock", "lock"}

\* the with block of an operation: the lock is taken and released
WithLock(l) == << <<"acquire", l>>, <<"release", l>> >>

\* a get_statistics whose helper _get_quality_summary takes self.lock again
LockProgramNested(op) ==
    IF op = "get_statistics"
    THEN << <<"acquire", "lock">>, <<"acquire", "lock">>, <<"release", "lock">>,
            <<"release", "lock">> >>
    ELSE IF op \in {"buffer_worker", "generate_random_bytes", "get_status"}
    THEN WithLock("buffer_lock")
    ELSE WithLock("lock")

\* the lock operations each operation performs, in program order.
\* FPGASimulator: buffer_worker (one iteration), generate_random_bytes and
\* get_status have one with self.buffer_lock block, and what they call
\* inside it (_generate_quantum_noise, _apply_debiasing) takes no lock.
\* PerformanceMonitor: record_generation, record_quality_metrics,
\* _update_real_time_metrics, get_statistics, get_real_time_throughput,
\* get_system_health and reset_statistics have one with self.lock block,
\* and the helpers get_statistics calls inside it take no lock.
LockProgram(op) ==
    IF op \in {"buffer_worker", "generate_random_bytes", "get_status"}
    THEN WithLock("buffer_lock")
    ELSE WithLock("lock")

\* the operations a thread executes: the two background threads run their
\* loop body; a request handler calls the public operations one after the
\* other (a route that generates and then records makes two calls)
ThreadOps(t) ==
    IF t = "producer" THEN {"buffer_worker"}
    ELSE IF t = "monitor" THEN {"_update_real_time_metrics"}
    ELSE {"generate_random_bytes", "get_status", "record_generation",
          "record_quality_metrics", "get_statistics", "get_real_time_throughput",
          "get_system_health", "reset_statistics"}

\* the holder of a lock
Holder(l) == IF l = "buffer_lock" THEN buffer_lock ELSE lock

\* the locks a thread holds
Held(t) == {l \in Locks : Holder(l) = t}

\* the step a thread executes next; <<"none", "none">> when it is idle
NextStep(t) ==
    IF t_op[t] = "idle" THEN <<"none", "none">> ELSE LockProgram(t_op[t])[t_pos[t]]

\* the thread waits for a lock another thread (or itself) holds
Blocked(t) == NextStep(t)[1] = "acquire" /\ Holder(NextStep(t)[2]) # "free"

\* a thread enters an operation
LockStart(t, op) ==
    /\ t_op[t] = "idle"
    /\ op \in ThreadOps(t)
    /\ t_op' = [t_op EXCEPT ![t] = op]
    /\ t_pos' = [t_pos EXCEPT ![t] = 1]
    /\ UNCHANGED <<lock, buffer_lock>>

\* with <lock>: threading.Lock.acquire, which waits while the lock is held
LockAcquire(t) ==
    /\ NextStep(t)[1] = "acquire"
    /\ Holder(NextStep(t)[2]) = "free"
    /\ IF NextStep(t)[2] = "buffer_lock"
       THEN buffer_lock' = t /\ UNCHANGED lock
       ELSE lock' = t /\ UNCHANGED buffer_lock
    /\ t_pos' = [t_pos EXCEPT ![t] = @ + 1]
    /\ UNCHANGED t_op

\* the with block ends: the lock is released; after the last step of its
\* program the operation returns
LockRelease(t) ==
    /\ NextStep(t)[1] = "release"
    /\ IF NextStep(t)[2] = "buffer_lock"
       THEN buffer_lock' = "free" /\ UNCHANGED lock
       ELSE lock' = "free" /\ UNCHANGED buffer_lock
    /\ IF t_pos[t] = Len(LockProgram(t_op[t]))
       THEN /\ t_op' = [t_op EXCEPT ![t] = "idle"]
            /\ t_pos' = [t_pos EXCEPT ![t] = 0]
       ELSE /\ t_pos' = [t_pos EXCEPT ![t] = @ + 1]
            /\ UNCHANGED t_op

\* ---------------------------------------------------- SpecDebias: actions
DebiasInputs == SeqsUpTo(DebiasByteVals, MaxDataLen)

\* the debiasing unit is not exercised
IdleDebiasVars ==
    /\ d_pc = "off"
    /\ d_in = <<>>
    /\ d_out = <<>>
    /\ d_path = "none"

InitDebias ==
    /\ d_pc = "input"
    /\ d_in \in DebiasInputs
    /\ d_out = <<>>
    /\ d_path = "none"
    /\ InitBufVars
    /\ IdleValVars
    /\ InitMonVars
    /\ InitRouteVars

\* _apply_debiasing(data), the try body
DebiasCall ==
    /\ d_pc = "input"
    /\ d_out' = ApplyDebiasing(d_in)
    /\ d_path' = IF DebiasedBits(d_in) # <<>> THEN "packed" ELSE "fallback"
    /\ d_pc' = "done"
    /\ UNCHANGED <<d_in, bufVars, valVars, monVars, routeVars>>

\* _apply_debiasing(data), the except branch: the input is returned as it came
DebiasRaise ==
    /\ d_pc = "input"
    /\ d_out' = d_in
    /\ d_path' = "error"
    /\ d_pc' = "done"
    /\ UNCHANGED <<d_in, bufVars, valVars, monVars, routeVars>>

NextDebias == DebiasCall \/ DebiasRaise

SpecDebias == InitDebias /\ [][NextDebias]_vars

\* ------------------------------------------------- SpecBuf: specification
InitBuf == InitBufVars /\ IdleDebiasVars /\ IdleValVars /\ InitMonVars /\ InitRouteVars

NextBuf ==
    \/ ProducerLoop /\ UNCHANGED <<debVars, valVars, monVars, routeVars>>
    \/ ProducerCheck /\ UNCHANGED <<debVars, valVars, monVars, routeVars>>
    \/ ProducerExtend /\ UNCHANGED <<debVars, valVars, monVars, routeVars>>
    \/ ProducerSleep /\ UNCHANGED <<debVars, valVars, monVars, routeVars>>
    \/ \E c \in Consumers, size \in 0..MaxSize : Call(c, size) /\ UNCHANGED <<debVars, valVars, monVars, routeVars>>
    \/ \E c \in Consumers : TakeHit(c) /\ UNCHANGED <<debVars, valVars, monVars, routeVars>>
    \/ \E c \in Consumers : TakeMiss(c) /\ UNCHANGED <<debVars, valVars, monVars, routeVars>>
    \/ \E c \in Consumers : TakeGenerated(c) /\ UNCHANGED <<debVars, valVars, monVars, routeVars>>
    \/ \E c \in Consumers : StatsBytesLoad(c) /\ UNCHANGED <<debVars, valVars, monVars, routeVars>>
    \/ \E c \in Consumers : StatsBytesStore(c) /\ UNCHANGED <<debVars, valVars, monVars, routeVars>>
    \/ \E c \in Consumers : StatsRequestsLoad(c) /\ UNCHANGED <<debVars, valVars, monVars, routeVars>>
    \/ \E c \in Consumers : StatsRequestsStore(c) /\ UNCHANGED <<debVars, valVars, monVars, routeVars>>
    \/ \E c \in Consumers : Return(c) /\ UNCHANGED <<debVars, valVars, monVars, routeVars>>
    \/ \E params \in ConfigInputs : ConfigureQuantumParams(params) /\ UNCHANGED <<debVars, valVars, monVars, routeVars>>
    \/ Stop /\ UNCHANGED <<debVars, valVars, monVars, routeVars>>

SpecBuf == InitBuf /\ [][NextBuf]_vars

\* ------------------------------------------------- SpecVal: specification
InitVal ==
    /\ v_pc = "input"
    /\ v_data \in ValInputs
    /\ v_results = NoResults
    /\ InitQmVars
    /\ InitBufVars
    /\ IdleDebiasVars
    /\ InitMonVars
    /\ InitRouteVars

NextVal == Validate \/ ValidateSubtestRaises

SpecVal == InitVal /\ [][NextVal]_vars

\* ---------------------------------------------- SpecAssess: specification
\* the overall assessment over every combination of sub-test outcomes
InitAssess ==
    /\ v_pc = "tests"
    /\ v_data = <<>>
    /\ \E tests \in [TestNames -> SubtestOutcomes] :
          v_results = [data_size_bytes |-> 0, tests |-> tests]
    /\ InitQmVars
    /\ InitBufVars
    /\ IdleDebiasVars
    /\ InitMonVars
    /\ InitRouteVars

NextAssess == Assess

SpecAssess == InitAssess /\ [][NextAssess]_vars

\* -------------------------------------------------- SpecQM: specification
\* get_quality_metrics calls on one buffer with validate_randomness and
\* get_quality_metrics calls on other buffers in between
NextQM ==
    \/ QuickMetrics
    \/ \E data \in QmOtherInputs : QuickMetricsOther(data)
    \/ Validate

SpecQM == InitVal /\ [][NextQM]_vars

\* ------------------------------------------------- SpecMon: specification
InitMon == InitMonVars /\ InitBufVars /\ IdleDebiasVars /\ IdleValVars /\ InitRouteVars

NextMon ==
    \/ \E r \in Recorders, in \in RecordInputs :
          RecordBegin(r, in[1], in[2], in[3]) /\ UNCHANGED <<debVars, bufVars, valVars, routeVars>>
    \/ \E r \in Recorders : RecordCommit(r) /\ UNCHANGED <<debVars, bufVars, valVars, routeVars>>
    \/ \E q \in QualityInputs :
          RecordQualityMetrics(q[1], q[2], q[3]) /\ UNCHANGED <<debVars, bufVars, valVars, routeVars>>
    \/ ResetStatistics /\ UNCHANGED <<debVars, bufVars, valVars, routeVars>>
    \/ now < MonMaxClock /\ Tick /\ UNCHANGED <<debVars, bufVars, valVars, routeVars>>

SpecMon == InitMon /\ [][NextMon]_vars

\* -------------------------------------------------- SpecRT: specification
\* the aggregator under concurrent record_generation calls, resets and the
\* periodic recomputation, which may run between any two other steps
NextRT ==
    \/ \E r \in Recorders, in \in RtRecordInputs :
          RecordBegin(r, in[1], in[2], in[3]) /\ UNCHANGED <<debVars, bufVars, valVars, routeVars>>
    \/ \E r \in Recorders : RecordCommit(r) /\ UNCHANGED <<debVars, bufVars, valVars, routeVars>>
    \/ ResetStatistics /\ UNCHANGED <<debVars, bufVars, valVars, routeVars>>
    \/ Tick /\ UNCHANGED <<debVars, bufVars, valVars, routeVars>>
    \/ UpdateRealTimeMetrics /\ UNCHANGED <<m_pc, debVars, bufVars, valVars, routeVars>>

SpecRT == InitMon /\ [][NextRT]_vars

\* ---------------------------------------------- SpecHealth: specification
\* the aggregator read through get_system_health
NextHealth ==
    \/ \E r \in Recorders, in \in RtRecordInputs :
          RecordBegin(r, in[1], in[2], in[3]) /\ UNCHANGED <<debVars, bufVars, valVars, routeVars>>
    \/ \E r \in Recorders : RecordCommit(r) /\ UNCHANGED <<debVars, bufVars, valVars, routeVars>>
    \/ \E q \in QualityInputs :
          RecordQualityMetrics(q[1], q[2], q[3]) /\ UNCHANGED <<debVars, bufVars, valVars, routeVars>>
    \/ UpdateRealTimeMetrics /\ UNCHANGED <<m_pc, debVars, bufVars, valVars, routeVars>>
    \/ GetSystemHealth /\ UNCHANGED <<debVars, bufVars, valVars, routeVars>>

SpecHealth == InitMon /\ [][NextHealth]_vars

\* ----------------------------------------------- SpecReset: specification
\* the health reader on an aggregator that one thread records into and that
\* is recomputed and reset while the clock runs
NextReset ==
    \/ \E in \in RecordInputs :
          RecordBegin("r1", in[1], in[2], in[3]) /\ UNCHANGED <<debVars, bufVars, valVars, routeVars>>
    \/ RecordCommit("r1") /\ UNCHANGED <<debVars, bufVars, valVars, routeVars>>
    \/ RecordQualityMetrics(400, 50, -30) /\ UNCHANGED <<debVars, bufVars, valVars, routeVars>>
    \/ ResetStatistics /\ UNCHANGED <<debVars, bufVars, valVars, routeVars>>
    \/ Tick /\ UNCHANGED <<debVars, bufVars, valVars, routeVars>>
    \/ UpdateRealTimeMetrics /\ UNCHANGED <<m_pc, debVars, bufVars, valVars, routeVars>>
    \/ GetSystemHealth /\ UNCHANGED <<debVars, bufVars, valVars, routeVars>>

SpecReset == InitMon /\ [][NextReset]_vars

\* ----------------------------------------------- SpecStats: specification
\* the aggregator read through get_statistics
NextStats ==
    \/ \E r \in Recorders, in \in RtRecordInputs :
          RecordBegin(r, in[1], in[2], in[3]) /\ UNCHANGED <<debVars, bufVars, valVars, routeVars>>
    \/ \E r \in Recorders : RecordCommit(r) /\ UNCHANGED <<debVars, bufVars, valVars, routeVars>>
    \/ ResetStatistics /\ UNCHANGED <<debVars, bufVars, valVars, routeVars>>
    \/ UpdateRealTimeMetrics /\ UNCHANGED <<m_pc, debVars, bufVars, valVars, routeVars>>
    \/ GetStatistics /\ UNCHANGED <<debVars, bufVars, valVars, routeVars>>

SpecStats == InitMon /\ [][NextStats]_vars

\* Scheduling: every thread that can take a step eventually takes it (weak
\* fairness of the producer and of each consumer's steps after the lock), and
\* a consumer blocked on buffer_lock gets the lock when it is free again and
\* again (strong fairness of the lock entry): every holder releases it after a
\* finite critical section and the producer sleeps between two of its own.
\* Calls of generate_random_bytes are the environment's and are not fair.
FairBuf ==
    /\ WF_vars(Producer /\ UNCHANGED <<debVars, valVars, monVars, routeVars>>)
    /\ \A c \in Consumers :
          /\ SF_vars((TakeHit(c) \/ TakeMiss(c)) /\ UNCHANGED <<debVars, valVars, monVars, routeVars>>)
          /\ WF_vars(( TakeGenerated(c) \/ StatsBytesLoad(c) \/ StatsBytesStore(c)
                      \/ StatsRequestsLoad(c) \/ StatsRequestsStore(c) \/ Return(c))
                     /\ UNCHANGED <<debVars, valVars, monVars, routeVars>>)

LiveSpecBuf == InitBuf /\ [][NextBuf]_vars /\ FairBuf

\* ------------------------------------------------ SpecStop: specification
\* the two background threads, buffer_worker and monitor_worker, with their
\* running flags, and one consumer competing for buffer_lock
NextStop ==
    \/ ProducerLoop /\ UNCHANGED <<debVars, valVars, monVars, routeVars>>
    \/ ProducerCheck /\ UNCHANGED <<debVars, valVars, monVars, routeVars>>
    \/ ProducerExtend /\ UNCHANGED <<debVars, valVars, monVars, routeVars>>
    \/ ProducerSleep /\ UNCHANGED <<debVars, valVars, monVars, routeVars>>
    \/ Stop /\ UNCHANGED <<debVars, valVars, monVars, routeVars>>
    \/ \E c \in StopConsumers, size \in 0..MaxSize : Call(c, size) /\ UNCHANGED <<debVars, valVars, monVars, routeVars>>
    \/ \E c \in StopConsumers : TakeHit(c) /\ UNCHANGED <<debVars, valVars, monVars, routeVars>>
    \/ \E c \in StopConsumers : TakeMiss(c) /\ UNCHANGED <<debVars, valVars, monVars, routeVars>>
    \/ \E c \in StopConsumers : TakeGenerated(c) /\ UNCHANGED <<debVars, valVars, monVars, routeVars>>
    \/ \E c \in StopConsumers : StatsBytesLoad(c) /\ UNCHANGED <<debVars, valVars, monVars, routeVars>>
    \/ \E c \in StopConsumers : StatsBytesStore(c) /\ UNCHANGED <<debVars, valVars, monVars, routeVars>>
    \/ \E c \in StopConsumers : StatsRequestsLoad(c) /\ UNCHANGED <<debVars, valVars, monVars, routeVars>>
    \/ \E c \in StopConsumers : StatsRequestsStore(c) /\ UNCHANGED <<debVars, valVars, monVars, routeVars>>
    \/ \E c \in StopConsumers : Return(c) /\ UNCHANGED <<debVars, valVars, monVars, routeVars>>
    \/ MonitorLoop /\ UNCHANGED <<debVars, bufVars, valVars, routeVars>>
    \/ MonitorUpdate /\ UNCHANGED <<debVars, bufVars, valVars, routeVars>>
    \/ MonitorSleep /\ UNCHANGED <<debVars, bufVars, valVars, routeVars>>
    \/ StopMonitoring /\ UNCHANGED <<debVars, bufVars, valVars, routeVars>>

\* the steps of monitor_worker
Monitor == MonitorLoop \/ MonitorUpdate \/ MonitorSleep

\* Scheduling as in FairBuf; monitor_worker is a thread of its own that
\* waits only for self.lock, which no other thread of this specification
\* holds. stop() and stop_monitoring() are the environment's and are not fair.
FairStop ==
    /\ FairBuf
    /\ WF_vars(Monitor /\ UNCHANGED <<debVars, bufVars, valVars, routeVars>>)

LiveSpecStop == InitBuf /\ [][NextStop]_vars /\ FairStop

\* ----------------------------------------------- SpecLocks: specification
\* the threads of the process and the two locks
lockFrame ==
    <<random_buffer, is_running, quantum_noise_params, stats, p_pc, c_pc, c_size,
      c_result, c_path, c_tmp, ncalls, produced, consumed,
      q_pc, q_route, q_technique, q_todo, gen_calls, rec_events, q_status, n_requests,
      grb_pc, grb_arg, grb_technique, grb_depth, grb_failed, grb_result, anuVars, requested_bytes, servedVars>>

NextLocks ==
    \/ \E t \in LockThreads : \E op \in ThreadOps(t) :
          LockStart(t, op) /\ UNCHANGED <<lockFrame, debVars, valVars, monVars>>
    \/ \E t \in LockThreads : LockAcquire(t) /\ UNCHANGED <<lockFrame, debVars, valVars, monVars>>
    \/ \E t \in LockThreads : LockRelease(t) /\ UNCHANGED <<lockFrame, debVars, valVars, monVars>>

SpecLocks == InitBuf /\ [][NextLocks]_vars

\* ------------------------------------------------- SpecGrb: specification
\* get_random_bytes called by two handlers
grbFrame ==
    <<q_pc, q_route, q_technique, q_todo, gen_calls, rec_events, q_status, n_requests,
      lockVars, anuVars, requested_bytes, servedVars>>

NextGrb ==
    \/ \E q \in Requests, technique \in GrbArgs :
          GrbCall(q, technique) /\ UNCHANGED <<grbFrame, debVars, bufVars, valVars, monVars>>
    \/ \E q \in Requests, raises \in BOOLEAN :
          GrbTry(q, raises) /\ UNCHANGED <<grbFrame, debVars, bufVars, valVars, monVars>>
    \/ \E q \in Requests : GrbExcept(q) /\ UNCHANGED <<grbFrame, debVars, bufVars, valVars, monVars>>
    \/ \E q \in Requests : GrbDone(q) /\ UNCHANGED <<grbFrame, debVars, bufVars, valVars, monVars>>

SpecGrb == InitBuf /\ [][NextGrb]_vars

\* ------------------------------------------------- SpecAnu: specification
\* one caller of the ANU client at a time
anuFrame ==
    <<q_pc, q_route, q_technique, q_todo, gen_calls, rec_events, q_status, n_requests,
      lockVars, grbVars, requested_bytes, servedVars>>

NextAnu ==
    \/ \E size \in 1..AnuMaxSize, via \in {"generate", "validate"} :
          AnuCall(size, via) /\ UNCHANGED <<anuFrame, debVars, bufVars, valVars, monVars>>
    \/ \E ok \in BOOLEAN, elapsed \in 0..1 :
          AnuChunk(ok, elapsed) /\ UNCHANGED <<anuFrame, debVars, bufVars, valVars, monVars>>
    \/ AnuDone /\ UNCHANGED <<anuFrame, debVars, bufVars, valVars, monVars>>
    \/ AnuTick /\ UNCHANGED <<anuFrame, debVars, bufVars, valVars, monVars>>

SpecAnu == InitBuf /\ [][NextAnu]_vars

\* --------------------------------------------- SpecCallers: specification
\* concurrent callers of generate_random_bytes on a simulator whose buffer
\* is empty; the sizes they ask for are added up
callersFrame ==
    <<q_pc, q_route, q_technique, q_todo, gen_calls, rec_events, q_status, n_requests,
      lockVars, grbVars, anuVars, servedVars>>

NextCallers ==
    \/ \E c \in Consumers, size \in 0..MaxSize :
          /\ Call(c, size)
          /\ requested_bytes' = requested_bytes + size
          /\ UNCHANGED <<callersFrame, debVars, valVars, monVars>>
    \/ \E c \in Consumers : TakeHit(c) /\ UNCHANGED <<debVars, valVars, monVars, routeVars>>
    \/ \E c \in Consumers : TakeMiss(c) /\ UNCHANGED <<debVars, valVars, monVars, routeVars>>
    \/ \E c \in Consumers : TakeGenerated(c) /\ UNCHANGED <<debVars, valVars, monVars, routeVars>>
    \/ \E c \in Consumers : StatsBytesLoad(c) /\ UNCHANGED <<debVars, valVars, monVars, routeVars>>
    \/ \E c \in Consumers : StatsBytesStore(c) /\ UNCHANGED <<debVars, valVars, monVars, routeVars>>
    \/ \E c \in Consumers : StatsRequestsLoad(c) /\ UNCHANGED <<debVars, valVars, monVars, routeVars>>
    \/ \E c \in Consumers : StatsRequestsStore(c) /\ UNCHANGED <<debVars, valVars, monVars, routeVars>>
    \/ \E c \in Consumers : Return(c) /\ UNCHANGED <<debVars, valVars, monVars, routeVars>>

SpecCallers == InitBuf /\ [][NextCallers]_vars

\* ---------------------------------------------- SpecRoutes: specification
InitRoutes == InitRouteVars /\ InitBufVars /\ IdleDebiasVars /\ IdleValVars /\ InitMonVars

NextRoutes ==
    \/ \E q \in Requests, route \in Routes, technique \in Techniques, count \in 0..MaxHashCount :
          RouteRequest(q, route, technique, count) /\ UNCHANGED <<debVars, bufVars, valVars, monVars>>
    \/ \E q \in Requests, raises \in BOOLEAN :
          GeneratorCall(q, raises) /\ UNCHANGED <<debVars, bufVars, valVars, monVars>>
    \/ \E q \in Requests, zero_time \in BOOLEAN :
          RouteRecord(q, zero_time) /\ UNCHANGED <<debVars, bufVars, valVars, monVars>>
    \/ \E q \in Requests : RouteRespond(q) /\ UNCHANGED <<debVars, bufVars, valVars, monVars>>
    \/ RouteStats /\ UNCHANGED <<debVars, bufVars, valVars, monVars>>

SpecRoutes == InitRoutes /\ [][NextRoutes]_vars

\* ------------------------------------------------------------- claims
IsPrefix(s, t) == Len(s) <= Len(t) /\ SubSeq(t, 1, Len(s)) = s

\* C1: generate_random_bytes(size) returns exactly size bytes, on a buffer
\* hit and on a buffer miss.
C1_ExactSize ==
    \A c \in Consumers : c_path[c] # "none" => Len(c_result[c]) = c_size[c]

\* C2: the fill level of the entropy buffer never exceeds buffer_size.
C2_FillWithinCapacity ==
    Len(random_buffer) <= BufferSize

\* C3: buffered bytes are delivered first-in first-out and at most once: the
\* results of the buffer hits, concatenated in lock order, are a prefix of
\* the concatenation of the chunks the producer appended.
C3_Fifo ==
    IsPrefix(consumed, produced)

\* C3 witness: buffer hits have delivered bytes of more than one chunk while
\* the producer has appended more than was taken
C3_Witness ==
    /\ Len(consumed) >= 3
    /\ Len(produced) > Len(consumed)
    /\ \E c \in Consumers : c_path[c] = "hit" /\ c_result[c] # <<>>

\* C4: every call of generate_random_bytes eventually returns; a call that
\* misses the buffer does not wait for the producer to raise the fill level.
C4_TakeReturns ==
    \A c \in Consumers : (c_pc[c] = "acquire") ~> (c_pc[c] = "idle")

\* C4 witness: a call that missed the buffer is about to return while the
\* producer has stopped for good
C4_Witness ==
    \E c \in Consumers :
        c_pc[c] = "pace" /\ c_path[c] = "miss" /\ p_pc = "exited" /\ random_buffer = <<>>

\* C5: on a buffer miss the on-demand noise generation of
\* generate_random_bytes never runs while the buffer lock is held.
C5_NoGenerationUnderLock ==
    \A c \in Consumers : c_pc[c] = "generating" => buffer_lock # c

\* the sub-tests of a report that did not return an error marker
ValidTests(tests) == {t \in DOMAIN tests : "error" \notin DOMAIN tests[t]}

\* C8: quality_score is passed_tests divided by the number of sub-tests
\* without an error marker, and total_tests is that number.
C8_ScoreOverValidTests ==
    v_pc = "done" =>
        LET q == v_results.overall_quality
            valid == Cardinality(ValidTests(v_results.tests))
        IN  /\ q.total_tests = valid
            /\ q.quality_score.num * valid = q.passed_tests * q.quality_score.den

\* C9: in every report passed_tests <= total_tests and 0 <= quality_score <= 1.
C9_AggregateInRange ==
    v_pc = "done" =>
        LET q == v_results.overall_quality
        IN  /\ q.passed_tests <= q.total_tests
            /\ q.quality_score.den > 0
            /\ 0 <= q.quality_score.num
            /\ q.quality_score.num <= q.quality_score.den

\* C9 witness: the report of a one-byte input: two sub-tests passed, two
\* failed, serial_correlation is an error marker
C9_Witness ==
    /\ v_pc = "done"
    /\ v_data = <<0>>
    /\ v_results.overall_quality.passed_tests = 2
    /\ v_results.overall_quality.total_tests = 5
    /\ "error" \in DOMAIN v_results.tests["serial_correlation"]
    /\ ~GetPassed(v_results.tests["frequency_test"])

\* C10: every rolling window holds at most its capacity, and it holds
\* exactly the newest elements inserted since the last reset, in insertion
\* order: after M+k insertions the oldest k are gone.
C10_RollingWindows ==
    /\ Len(generation_history) <= HistorySize
    /\ Len(throughput_history) <= HistorySize
    /\ Len(latency_history) <= HistorySize
    /\ Len(quality_metrics.entropy_scores) <= QualityMaxLen
    /\ Len(quality_metrics.uniformity_scores) <= QualityMaxLen
    /\ Len(quality_metrics.correlation_scores) <= QualityMaxLen
    /\ generation_history = LastN(event_log, HistorySize)
    /\ throughput_history =
          LastN([i \in 1..Len(event_log) |-> event_log[i].throughput_mbps], HistorySize)
    /\ latency_history =
          LastN([i \in 1..Len(event_log) |-> event_log[i].generation_time], HistorySize)
    /\ quality_metrics.entropy_scores =
          LastN([i \in 1..Len(quality_log) |-> quality_log[i][1]], QualityMaxLen)
    /\ quality_metrics.uniformity_scores =
          LastN([i \in 1..Len(quality_log) |-> quality_log[i][2]], QualityMaxLen)
    /\ quality_metrics.correlation_scores =
          LastN([i \in 1..Len(quality_log) |-> quality_log[i][3]], QualityMaxLen)

\* C10 witness: more events than HistorySize and more quality samples than
\* QualityMaxLen were inserted, with differing oldest and newest elements
C10_Witness ==
    /\ Len(event_log) = HistorySize + 1
    /\ Len(quality_log) = QualityMaxLen + 1
    /\ event_log[1] # event_log[Len(event_log)]
    /\ quality_log[1] # quality_log[Len(quality_log)]
    /\ Len(generation_history) = HistorySize

\* C6: debiasing is never expansive: on every path (packed, fallback,
\* error) the returned byte sequence is no longer than the input.
C6_DebiasNotExpansive ==
    d_pc = "done" => Len(d_out) <= Len(d_in)

\* C6 witness: a returned, non-empty debiased output of an input whose
\* scan emitted bits
C6_Witness ==
    d_pc = "done" /\ d_path = "packed" /\ Len(d_in) = MaxDataLen /\ Len(d_out) = 2

\* the transform as the specification words it: bit k of the input (0-based,
\* most significant bit of each byte first)
SpecBit(data, k) == (data[(k \div 8) + 1] \div Pow2(7 - (k % 8))) % 2
\* the informative pairs, in order: indexes j with bit 2j # bit 2j+1
SpecInformative(data) ==
    {j \in 0..((8 * Len(data)) \div 2 - 1) : SpecBit(data, 2 * j) # SpecBit(data, 2 * j + 1)}
\* the n-th (1-based) smallest element of a finite set of naturals
SpecNth(S, n) == CHOOSE x \in S : Cardinality({y \in S : y < x}) = n - 1
\* emitted bit sequence: first bit of each informative pair ((0,1) -> 0, (1,0) -> 1)
SpecEmitted(data) ==
    [n \in 1..Cardinality(SpecInformative(data)) |->
        SpecBit(data, 2 * SpecNth(SpecInformative(data), n))]
\* right-padded with zero bits to the next multiple of 8 and repacked
SpecPacked(data) ==
    LET e == SpecEmitted(data)
        nbytes == (Len(e) + 7) \div 8
        bit(k) == IF k <= Len(e) THEN e[k] ELSE 0
    IN  [m \in 1..nbytes |->
            bit(8*m - 7) * 128 + bit(8*m - 6) * 64 + bit(8*m - 5) * 32 + bit(8*m - 4) * 16
          + bit(8*m - 3) * 8 + bit(8*m - 2) * 4 + bit(8*m - 1) * 2 + bit(8*m)]

\* C7: whenever the scan emits at least one bit, _apply_debiasing returns
\* the MSB-first pairwise transform ((0,1) -> 0, (1,0) -> 1, equal pairs
\* dropped), zero-padded on the right to a byte boundary and repacked
\* MSB-first.
C7_DebiasIsVonNeumann ==
    (d_pc = "done" /\ d_path # "error" /\ SpecInformative(d_in) # {})
        => d_out = SpecPacked(d_in)

\* C7 witness: an input mixing (0,1), (1,0) and equal pairs was transformed
C7_Witness ==
    d_pc = "done" /\ d_path = "packed" /\ d_in = <<27, 77>> /\ d_out = <<64>>

C22_AllZeroFails ==
    (/\ v_pc = "done"
     /\ Len(v_data) >= 1
     /\ \A i \in 1..Len(v_data) : v_data[i] = 0)
        => LET f == v_results.tests["frequency_test"]
               e == v_results.tests["entropy"]
           IN  /\ "error" \notin DOMAIN f =>
                      /\ f.chi_square.den > 0
                      /\ f.chi_square.num = 8 * Len(v_data) * f.chi_square.den
                      /\ 1000 * f.chi_square.num > f.critical_value_thousandths * f.chi_square.den
                      /\ f.passed = FALSE
               /\ "error" \notin DOMAIN e =>
                      /\ e.entropy = 0
                      /\ e.passed = FALSE

\* C22 witness: the report on four zero bytes, statistic 32
C22_Witness ==
    /\ v_pc = "done"
    /\ v_data = <<0, 0, 0, 0>>
    /\ v_results.tests["frequency_test"].chi_square = [num |-> 1024, den |-> 32]
    /\ v_results.tests["entropy"].entropy = 0
    /\ v_results.overall_quality.passed_tests = 1

\* C23: for every combination of sub-test outcomes the assessment is GOOD
\* exactly when the reported quality_score is >= 0.8, FAIR exactly when
\* 0.6 <= quality_score < 0.8, and POOR otherwise.
C23_LabelMatchesScore ==
    v_pc = "done" =>
        LET q == v_results.overall_quality
            score == q.quality_score
        IN  /\ score.den > 0
            /\ q.assessment = "GOOD" <=> 10 * score.num >= 8 * score.den
            /\ q.assessment = "FAIR" <=>
                  (10 * score.num >= 6 * score.den /\ 10 * score.num < 8 * score.den)
            /\ q.assessment = "POOR" <=> 10 * score.num < 6 * score.den

\* C23 witness: four sub-tests passed and one returned an error marker: the
\* score is exactly 0.8 and the label GOOD
C23_Witness ==
    /\ v_pc = "done"
    /\ "overall_quality" \in DOMAIN v_results
    /\ v_results.tests["entropy"] = ErrorMarker
    /\ v_results.overall_quality.quality_score = [num |-> 4, den |-> 5]
    /\ v_results.overall_quality.assessment = "GOOD"

\* C24: when the scan emits no bit (every bit pair of the input is (0,0) or
\* (1,1)), _apply_debiasing returns the first floor(len(data)/2) bytes of
\* the input unchanged.
C24_DegenerateFallback ==
    (d_pc = "done" /\ d_path # "error" /\ SpecInformative(d_in) = {})
        => d_out = SubSeq(d_in, 1, Len(d_in) \div 2)

\* C24 witness: three bytes without an informative pair, differing from
\* each other, came back as their first byte
C24_Witness ==
    d_pc = "done" /\ d_path = "fallback" /\ d_in = <<255, 0, 0>> /\ d_out = <<255>>

\* C25: a failing sub-test affects only its own entry: every report holds
\* all five sub-test entries and the overall_quality aggregate, the entries
\* of the sub-tests that did not fail are what they are when nothing fails,
\* and on fewer than 2 bytes serial_correlation is an error marker while the
\* other four entries are present.
C25_SubtestIsolation ==
    v_pc = "done" =>
        /\ DOMAIN v_results.tests = TestNames
        /\ "overall_quality" \in DOMAIN v_results
        /\ \A t \in TestNames :
              \/ "error" \in DOMAIN v_results.tests[t]
              \/ v_results.tests[t] = ValidateRandomness(v_data, {}).tests[t]
        /\ Len(v_data) < 2 =>
              /\ "error" \in DOMAIN v_results.tests["serial_correlation"]
              /\ TestNames \ {"serial_correlation"} \subseteq DOMAIN v_results.tests

\* C25 witness: the report on one byte in which the entropy sub-test raised:
\* two error markers, and the frequency test still passed
C25_Witness ==
    /\ v_pc = "done"
    /\ v_data = <<85>>
    /\ "error" \in DOMAIN v_results.tests["serial_correlation"]
    /\ v_results.tests["entropy"] = ErrorMarker
    /\ GetPassed(v_results.tests["frequency_test"])
    /\ v_results.overall_quality.total_tests = 5

\* C26: the producer holds the buffer lock only for the fill check and the
\* append: while it generates a chunk it does not hold the lock, so no take
\* waits for the lock during a producer noise generation.
C26_ProducerGeneratesUnlocked ==
    /\ p_pc = "generating" => buffer_lock # "producer"
    /\ \A c \in Consumers :
          ~(c_pc[c] = "acquire" /\ p_pc = "generating" /\ buffer_lock = "producer")

\* no generate_random_bytes call is in progress
NoTakeInProgress == \A c \in Consumers : c_pc[c] = "idle"

\* C27: while the producer runs and no take occurs the buffer is refilled:
\* a producer iteration that finds fill < capacity appends at least one
\* byte (a chunk of ChunkSize bytes debiases to at least one byte), a
\* producer step at fill >= capacity leaves the buffer unchanged, and from
\* a fill level below the capacity the level reaches the capacity unless a
\* take is started or the producer is stopped.  The production horizon
\* MaxProduced must leave room for the missing bytes: every append adds at
\* least one byte, so BufferSize - fill more produced bytes always suffice.
C27_BufferRefilled ==
    /\ [][ /\ (p_pc = "acquire" /\ p_pc' # "acquire" /\ Len(random_buffer) < BufferSize)
                => p_pc' = "generating"
           /\ (p_pc = "generating" /\ p_pc' # "generating")
                => /\ Len(random_buffer') >= Len(random_buffer) + 1
                   /\ SubSeq(random_buffer', 1, Len(random_buffer)) = random_buffer
           /\ (p_pc' # p_pc /\ Len(random_buffer) >= BufferSize)
                => random_buffer' = random_buffer
           /\ \A data \in SeqsOfLen({0, 170}, ChunkSize) : Len(ApplyDebiasing(data)) >= 1 ]_vars
    /\ \A k \in 0..MaxCalls :
          (/\ is_running /\ ncalls = k /\ NoTakeInProgress
           /\ Len(random_buffer) < BufferSize
           /\ MaxProduced - Len(produced) >= BufferSize - Len(random_buffer))
             ~> (Len(random_buffer) >= BufferSize \/ ncalls # k \/ ~is_running)

\* C27 witness: a take removed a byte of a full buffer, and with no take
\* in progress the producer has appended a second chunk
C27_Witness ==
    /\ is_running
    /\ NoTakeInProgress
    /\ Len(consumed) = 1
    /\ Len(produced) = 4
    /\ Len(random_buffer) = 3
    /\ p_pc = "sleep"

\* C28: the buffer lock and the aggregator lock are never nested: a thread
\* that is about to acquire a lock holds no lock, neither the other one nor
\* the same one; so a thread that holds a lock is never waiting, a waiting
\* thread waits for a thread that can run, and no state is a deadlock.
C28_LocksNotNested ==
    /\ \A t \in LockThreads :
          /\ NextStep(t)[1] = "acquire" => Held(t) = {}
          /\ Held(t) # {} => ~Blocked(t) /\ ENABLED LockRelease(t)
          /\ Blocked(t) => ~Blocked(Holder(NextStep(t)[2]))
          /\ Cardinality(Held(t)) <= 1
    /\ \A l \in Locks : Holder(l) \in LockThreads \cup {"free"}
    /\ (\E t \in LockThreads : t_op[t] # "idle")
          => (\E u \in LockThreads : (ENABLED LockAcquire(u)) \/ (ENABLED LockRelease(u)))

\* C28 witness: both locks are held, by different threads, while the two
\* other threads wait, one for each lock
C28_Witness ==
    /\ buffer_lock = "producer"
    /\ lock = "h1"
    /\ t_op["h1"] = "get_statistics"
    /\ t_op["h2"] = "get_status" /\ Blocked("h2")
    /\ t_op["monitor"] = "_update_real_time_metrics" /\ Blocked("monitor")

\* C30: get_random_bytes falls back to FPGA when another technique fails:
\* when the technique of the call is not 'fpga' and is unknown or its
\* generator raised, the call returns what get_random_bytes(size, 'fpga')
\* returns, with metadata technique 'fpga'; the recursion is at most one
\* deep; and a failure of the 'fpga' technique reaches the caller.
C30_FallbackToFpga ==
    \A q \in Requests :
        /\ grb_depth[q] <= 1
        /\ grb_depth[q] = 1 =>
              /\ grb_arg[q] # "fpga" /\ grb_technique[q] = "fpga"
              /\ grb_failed[q] # <<>> /\ grb_failed[q][1] = grb_arg[q]
        /\ (grb_pc[q] = "returned" /\ grb_failed[q] # <<>>) =>
              /\ grb_failed[q] = <<grb_arg[q]>>
              /\ grb_arg[q] # "fpga"
              /\ grb_result[q] = [technique |-> "fpga", source |-> SourceOf("fpga")]
        /\ (grb_pc[q] = "returned" /\ grb_failed[q] = <<>>) =>
              /\ grb_arg[q] \in TECHNIQUES
              /\ grb_result[q].technique = grb_arg[q]
        /\ grb_pc[q] = "raised" <=>
              (/\ grb_pc[q] \notin {"idle", "try", "except"}
               /\ grb_failed[q] # <<>>
               /\ grb_failed[q][Len(grb_failed[q])] = "fpga")
        /\ (grb_pc[q] = "except" /\ grb_technique[q] = "fpga") => ENABLED GrbExcept(q)

\* C30 witness: one caller got the FPGA result after its unknown technique
\* failed; the other asked for anu, the generator raised, the fallback
\* raised too and the exception reached it
C30_Witness ==
    /\ grb_pc["q1"] = "returned" /\ grb_arg["q1"] = "quantum"
    /\ grb_result["q1"].technique = "fpga" /\ grb_depth["q1"] = 1
    /\ grb_pc["q2"] = "raised" /\ grb_failed["q2"] = <<"anu", "fpga">>

\* ------------------------------------------------ claims on the aggregator
\* the size_bytes of the events of a log
EventSizes(log) == [i \in 1..Len(log) |-> log[i].size_bytes]

\* C11: under every interleaving of concurrent record_generation calls,
\* resets and recomputations no update is lost: total_requests is the number
\* of record_generation calls completed since the last reset and
\* total_bytes_generated is the sum of their size_bytes.
C11_NoLostUpdate ==
    /\ current_metrics.total_requests = Len(event_log)
    /\ current_metrics.total_bytes_generated = SumSeq(EventSizes(event_log))

\* C11 witness: two calls have completed, a recomputation has run after
\* them and a third call has taken its timestamp but not yet the lock
C11_Witness ==
    /\ Len(event_log) = 2
    /\ current_metrics.total_requests = 2
    /\ current_metrics.requests_per_second.num = 2
    /\ \E r \in Recorders : r_pc[r] = "lock"

\* C13: record_generation never rejects a call: the call that holds an event
\* can always complete, its completion appends exactly that one event as the
\* newest of the history, and an event with duration <= 0 has throughput 0.
C13_NeverRejects ==
    [][\A r \in Recorders :
          /\ r_pc[r] = "lock" => ENABLED RecordCommit(r)
          /\ (r_pc[r] = "lock" /\ r_pc'[r] = "idle") =>
             LET n == Len(generation_history')
                 e == generation_history'[n]
             IN  /\ n = Min(Len(generation_history) + 1, HistorySize)
                 /\ SubSeq(generation_history', 1, n - 1) = LastN(generation_history, n - 1)
                 /\ e.size_bytes = r_event[r].size_bytes
                 /\ e.generation_time = r_event[r].generation_time
                 /\ e.source = r_event[r].source
                 /\ (e.generation_time <= 0 => e.throughput_mbps = 0)
                 /\ current_metrics'.total_requests = current_metrics.total_requests + 1]_vars

\* C13 witness: events with a zero and with a negative duration are in the
\* history
C13_Witness ==
    /\ \E i \in 1..Len(generation_history) :
          generation_history[i].generation_time = 0 /\ generation_history[i].throughput_mbps = 0
    /\ \E i \in 1..Len(generation_history) :
          generation_history[i].generation_time < 0 /\ generation_history[i].throughput_mbps = 0

\* C17: after each recomputation requests_per_second is the number of
\* record_generation calls (since the last reset) with a timestamp within
\* the preceding 60 seconds, divided by 60.
C17_RequestsPerSecond ==
    [][UpdateRealTimeMetrics =>
          current_metrics'.requests_per_second =
              Frac(Cardinality({i \in 1..Len(event_log) :
                                   now - event_log[i].timestamp <= WindowTicks}),
                   WindowSeconds)]_vars

\* the derived real-time metrics of a current_metrics dictionary
DerivedMetrics(m) ==
    <<m.instantaneous_throughput_mbps, m.average_throughput_mbps, m.peak_throughput_mbps,
      m.average_latency_ms, m.requests_per_second>>

C20_SourceStatsMonotone ==
    [][Len(event_log') > Len(event_log) =>
          \A src \in DOMAIN source_stats :
             /\ src \in DOMAIN source_stats'
             /\ source_stats'[src].requests >= source_stats[src].requests
             /\ source_stats'[src].bytes_generated >= source_stats[src].bytes_generated
             /\ source_stats'[src].total_time >= source_stats[src].total_time
             /\ source_stats'[src].error_count >= source_stats[src].error_count]_vars

RECURSIVE SumRequests(_, _)
\* the sum of source_statistics[src].requests over the labels S, as the
\* holder of the snapshot reads them
SumRequests(snap, S) ==
    IF S = {} THEN 0
    ELSE LET src == CHOOSE x \in S : TRUE
         IN  SnapshotSourceStats(snap, src).requests + SumRequests(snap, S \ {src})

InUnitRange(f) == f.num >= 0 /\ f.num <= f.den

\* C16: every health indicator returned by get_system_health and the
\* overall score lie in [0, 1].
C16_HealthInRange ==
    health.taken =>
       /\ InUnitRange(health.health_indicators.throughput_health)
       /\ InUnitRange(health.health_indicators.latency_health)
       /\ InUnitRange(health.health_indicators.quality_health)
       /\ InUnitRange(health.overall_health_score)

\* ----------------------------------------- further claims on the generator
\* C14: a take that misses the buffer leaves the buffer contents unchanged:
\* its own steps do not touch random_buffer, nothing touches it while the
\* miss generates, and for as long as the call lasts the buffer changes only
\* by the producer's appends or by another consumer's take.
C14_MissLeavesBuffer ==
    [][\A c \in Consumers :
          /\ ( /\ c_pc'[c] # c_pc[c]
               /\ c_pc'[c] = "generating" \/ c_path[c] = "miss" \/ c_path'[c] = "miss" )
             => random_buffer' = random_buffer
          /\ c_pc[c] = "generating" => random_buffer' = random_buffer
          /\ (c_path[c] = "miss" /\ random_buffer' # random_buffer)
             => \/ IsPrefix(random_buffer, random_buffer') /\ p_pc = "generating"
                \/ \E d \in Consumers \ {c} : c_pc'[d] # c_pc[d]]_vars

\* C14 witness: a call has missed a buffer that holds bytes, fewer than it
\* asked for, and the bytes are still there
C14_Witness ==
    \E c \in Consumers :
       /\ c_path[c] = "miss"
       /\ random_buffer # <<>>
       /\ Len(random_buffer) < c_size[c]

\* C15: when the noise generation fails (a noise parameter is invalid),
\* _generate_quantum_noise(size) still returns, and it returns exactly size
\* bytes of the base stream, for the consumer's miss and for the producer's
\* chunk alike.
C15_FailureFallback ==
    [][NoiseRaises(quantum_noise_params) =>
          /\ \A c \in Consumers :
                c_pc[c] = "generating" =>
                   /\ GenerateQuantumNoise(c_size[c], quantum_noise_params) # {}
                   /\ c_pc'[c] # "generating" =>
                         /\ Len(c_result'[c]) = c_size[c]
                         /\ \A i \in 1..Len(c_result'[c]) : c_result'[c][i] \in NoiseByteVals
          /\ p_pc = "generating" =>
                /\ GenerateQuantumNoise(ChunkSize, quantum_noise_params) # {}
                /\ p_pc' # "generating" =>
                      /\ Len(random_buffer') = Len(random_buffer) + ChunkSize
                      /\ \A i \in (Len(random_buffer) + 1)..Len(random_buffer') :
                            random_buffer'[i] \in NoiseByteVals]_vars

\* C15 witness: with an invalid noise parameter a miss of size 2 has
\* returned two bytes of the base stream, and the producer has appended a
\* chunk of the base stream
C15_Witness ==
    /\ NoiseRaises(quantum_noise_params)
    /\ \E c \in Consumers :
          /\ c_path[c] = "miss"
          /\ c_size[c] = 2
          /\ Len(c_result[c]) = 2
          /\ \A i \in 1..2 : c_result[c][i] \in NoiseByteVals
    /\ Len(produced) = ChunkSize
    /\ \A i \in 1..Len(produced) : produced[i] \in NoiseByteVals

\* C18: once stop() has cleared is_running the flag stays cleared, the
\* producer starts no further iteration, appends at most one more chunk (only
\* the chunk of the iteration it is in, at the end of which it cannot get
\* back to the append) and terminates; once stop_monitoring() has cleared
\* monitoring_active the recomputation loop starts no further recomputation
\* and terminates.
C18_GracefulShutdown ==
    /\ [][ /\ ~is_running =>
                 /\ ~is_running'
                 /\ ~(p_pc \in {"sleep", "loop", "exited"} /\ p_pc' \in {"acquire", "generating"})
                 /\ produced' # produced => p_pc = "generating" /\ p_pc' = "sleep"
           /\ ~monitoring_active =>
                 /\ ~monitoring_active'
                 /\ ~(m_pc \in {"sleep", "loop", "exited"} /\ m_pc' = "update") ]_vars
    /\ (~is_running ~> p_pc = "exited")
    /\ (~monitoring_active ~> m_pc = "exited")

\* C18 witness: both flags are cleared while the loops are inside an
\* iteration: the producer holds buffer_lock and is about to append one more
\* chunk, the recomputation loop is about to run its last recomputation
C18_Witness ==
    /\ ~is_running
    /\ p_pc = "generating"
    /\ buffer_lock = "producer"
    /\ ~monitoring_active
    /\ m_pc = "update"

\* ------------------------------------------------ claims on the route layer
\* C19: every generate_random_bytes call a handler makes is followed by
\* exactly one record_generation event for it: when the handler answers it
\* has recorded as many events as it made generator calls.
C19_EveryCallRecorded ==
    \A q \in Requests : q_pc[q] = "done" => rec_events[q] = gen_calls[q]
\* C32: the buffer overshoots its capacity by less than one producer chunk:
\* the fill level never exceeds buffer_size + 1023, a chunk being at most
\* 1024 bytes and appended only at a fill level below buffer_size; every
\* append of the producer adds between 1 and ChunkSize bytes.
C32_OvershootBelowChunk ==
    /\ [](Len(random_buffer) <= BufferSize + ChunkSize - 1)
    /\ [][ (p_pc = "generating" /\ p_pc' # "generating")
              => /\ Len(random_buffer) < BufferSize
                 /\ Len(random_buffer') - Len(random_buffer) \in 1..ChunkSize ]_vars

\* C32 witness: the largest overshoot: a whole chunk appended at fill
\* buffer_size - 1
C32_Witness ==
    /\ Len(random_buffer) = BufferSize + ChunkSize - 1
    /\ p_pc = "sleep"

\* C33: the generator's own statistics stay exact under concurrent callers:
\* when every started generate_random_bytes call has completed,
\* generation_requests is the number of calls and total_bytes_generated is
\* the sum of their sizes.
C33_StatsExact ==
    (\A c \in Consumers : c_pc[c] = "idle")
        => /\ stats.generation_requests = ncalls
           /\ stats.total_bytes_generated = requested_bytes

RECURSIVE SumOverSources(_, _)
\* the sum of source_stats[src][field] over the labels S
SumOverSources(field, S) ==
    IF S = {} THEN 0
    ELSE LET src == CHOOSE x \in S : TRUE
         IN  source_stats[src][field] + SumOverSources(field, S \ {src})

\* C34: whenever no thread is inside the aggregator's critical section (the
\* body of with self.lock is one step, so in every state), total_requests
\* is the sum of requests over all source labels and total_bytes_generated
\* is the sum of bytes_generated over all source labels, after any sequence
\* of record_generation and reset_statistics calls.
C34_TotalsMatchSources ==
    /\ current_metrics.total_requests = SumOverSources("requests", DOMAIN source_stats)
    /\ current_metrics.total_bytes_generated =
          SumOverSources("bytes_generated", DOMAIN source_stats)

\* C34 witness: one event was recorded and reset, then one event of each of
\* two sources was recorded
C34_Witness ==
    /\ n_records = 3
    /\ Len(event_log) = 2
    /\ DOMAIN source_stats = {"fpga", "anu"}
    /\ current_metrics.total_requests = 2
    /\ current_metrics.total_bytes_generated = 750

\* the values the holder of the last returned snapshot reads in it
SnapshotView ==
    IF ~snapshot.taken THEN snapshot
    ELSE [snapshot EXCEPT !.source_statistics =
             [src \in DOMAIN snapshot.source_statistics |->
                 SnapshotSourceStats(snapshot, src)]]

\* C35: a snapshot returned by get_statistics is isolated from later
\* activity: no step other than a new get_statistics call changes a value
\* its holder reads in it, its source_statistics entries included.
C35_SnapshotIsolated ==
    [][(snapshot.taken /\ n_reads' = n_reads) => SnapshotView' = SnapshotView]_vars

\* C36: under concurrent record_generation calls the event history stays
\* ordered by time: the timestamps of generation_history are non-decreasing
\* in queue order, and last_request_time is the largest timestamp of the
\* events recorded since the last reset.
C36_HistoryOrderedByTime ==
    /\ \A i, j \in 1..Len(generation_history) :
          i < j => generation_history[i].timestamp <= generation_history[j].timestamp
    /\ event_log # <<>> =>
          /\ \A i \in 1..Len(event_log) : event_log[i].timestamp <= last_request_time
          /\ \E i \in 1..Len(event_log) : event_log[i].timestamp = last_request_time

\* C37: every generation event recorded by any endpoint is reflected in the
\* statistics served by /api/stats: the total_requests of a response is the
\* number of events all route handlers had recorded when it was built.
C37_StatsReflectAllRoutes ==
    stats_served.taken => stats_served.total_requests = stats_served.recorded

\* C39: on an aggregator with no recorded event and no quality sample,
\* freshly constructed or just reset, get_system_health reports
\* throughput_health 0, latency_health 1 and quality_health 1, an overall
\* score of 2/3, the status "degraded", and is_active not true.
C39_IdleHealth ==
    [][(n_reads' = n_reads + 1 /\ health' # health
        /\ event_log = <<>> /\ quality_log = <<>>)
          => /\ health'.health_indicators.throughput_health = Frac(0, 1)
             /\ health'.health_indicators.latency_health = Frac(1, 1)
             /\ health'.health_indicators.quality_health = Frac(1, 1)
             /\ health'.overall_health_score = Frac(2, 3)
             /\ health'.status = "degraded"
             /\ health'.is_active = FALSE]_vars

\* C39 witness: events and quality samples were recorded and recomputed
\* into the metrics, the aggregator was reset at tick 2, and
\* get_system_health was then called
C39_Witness ==
    /\ health.taken
    /\ health.timestamp = 2
    /\ health.uptime_seconds = 0
    /\ start_time = 2
    /\ n_records > 0
    /\ n_quality > 0
    /\ event_log = <<>>
    /\ quality_log = <<>>
    /\ health.status = "degraded"

\* ------------------------------------------------ claims on the ANU client
\* C31: one remote request per 70 seconds: after a remote request that
\* succeeded, no further remote request is sent before the cooldown has
\* passed, whether by a later call, by validate_with_anu or by a later
\* iteration of the multi-chunk loop.
C31_OneRequestPerCooldown ==
    \A i, j \in 1..Len(anu_http_log) :
        (i < j /\ anu_http_log[i].ok)
            => anu_http_log[j].sent - anu_http_log[i].answered >= CooldownTicks

\* C38: in a result served in several chunks every chunk comes from its own
\* remote response: no two chunks of one result are the same response.
C38_ChunksFromOwnResponses ==
    (anu_pc = "returned" /\ anu_size > AnuChunkLimit)
        => \A i, j \in 1..Len(anu_chunks) :
              i # j => anu_chunks[i].resp # anu_chunks[j].resp

====
